---------------------------- MODULE Spec2Model ----------------------------
(***************************************************************************)
(* A model of the non-visual core of the widget dashboard:                 *)
(*   - WidgetCommunicationService  (event bus, shared state, requests)     *)
(*   - DashboardLayoutManagerService (grid layout engine)                  *)
(*   - WidgetOrchestratorService   (widget instance lifecycle)             *)
(* Each service has its own specification (SpecBus, SpecShared, SpecReq,   *)
(* SpecLayout, SpecOrch) over the one set of variables; a specification    *)
(* leaves the other services in their constructed state.                   *)
(* JavaScript's undefined is the string Undef; an absent optional number   *)
(* (minCols, ...) is 0, which the code's truthiness tests treat alike.     *)
(***************************************************************************)
EXTENDS Integers, Sequences, FiniteSets, TLC

VARIABLES
    \* WidgetCommunicationService
    subs,          \* eventBus subscriptions made through subscribe*/ (per handler)
    lastEvent,     \* the last event eventBus delivered and the handlers it reached
    sharedState,   \* sharedState: key -> BehaviorSubject (present, value)
    stateSubs,     \* subscribers of subscribeToSharedState(key) observables
    requests,      \* the promises of request(): handler, timer, outcome
    now,           \* Date.now() / the timer clock, in ms
    \* DashboardLayoutManagerService
    dashboard,     \* dashboardConfig.id and dashboardConfig.title
    grid,          \* dashboardConfig.grid (cols, responsive)
    widgets,       \* dashboardConfig.widgets: the widgets' ids and layouts, in order
    layoutChanges, \* layoutChanges.value: the change history
    breakpoint,    \* currentBreakpoint.value (its name)
    layoutRet,     \* the last layout operation and what it returned
    \* WidgetOrchestratorService
    instances,     \* instances: id -> WidgetInstance
    componentRefs, \* componentRefs: id -> mounted component
    subscriptions, \* subscriptions: ids holding a data-stream subscription
    streams,       \* the data-provider subscriptions setupDataBinding made
    loads,         \* the loadWidgetComponent calls waiting at their await
    errors,        \* what errorSubject published last
    orchRet,       \* the last orchestrator operation and what it returned
    \* WidgetRegistryService
    regWidgets,    \* widgets: type -> definition, in the Map's insertion order
    categories,    \* categories: category -> definitions, in insertion order
    widgetSubject, \* widgetSubject.value
    regRet,        \* the last registry operation and what it returned
    \* the objects the two services share
    sharedObjects  \* the ids whose entry of dashboardConfig.widgets is the very
                   \* object the orchestrator's instances map holds

commVars == <<subs, lastEvent, sharedState, stateSubs, requests, now>>
layoutVars == <<dashboard, grid, widgets, layoutChanges, breakpoint, layoutRet>>
orchVars == <<instances, componentRefs, subscriptions, streams, loads, errors, orchRet>>
regVars == <<regWidgets, categories, widgetSubject, regRet>>
vars == <<subs, lastEvent, sharedState, stateSubs, requests, now,
          dashboard, grid, widgets, layoutChanges, breakpoint, layoutRet,
          instances, componentRefs, subscriptions, streams, loads, errors,
          orchRet, regWidgets, categories, widgetSubject, regRet, sharedObjects>>

Undef == "undefined"

\* what an operation of one service leaves alone
OnlyComm == UNCHANGED <<layoutVars, orchVars, regVars, sharedObjects>>
OnlyLayout == UNCHANGED <<commVars, orchVars, regVars, sharedObjects>>
OnlyOrch == UNCHANGED <<commVars, layoutVars, regVars, sharedObjects>>
OnlyReg == UNCHANGED <<commVars, layoutVars, orchVars, sharedObjects>>

(***************************************************************************)
(*                     WidgetCommunicationService                          *)
(***************************************************************************)

\* ---- bounds of the model
MaxHandlers == 2
MaxStateSubs == 1
MaxWrites == 2
MaxRequests == 2
MaxRnd == 2
TickMs == 2500
MaxNow == 7500

\* ---- program constant: const timeoutMs = 5000
timeoutMs == 5000

Handlers == 1..MaxHandlers
StateSubIds == 1..MaxStateSubs
ReqSlots == 1..MaxRequests

WidgetIds == {"w1", "w2"}
Sources == WidgetIds
RequestTypes == {"T"}
RequestTargets == {"w1"}
ResponseData == {"v1"}
UserTypes == {"T", "X"}
Keys == {"k1", "k2"}
Values == {"v1", "v2"}
NoId == [ts |-> -1, rnd |-> 0]

\* `${requestType}_RESPONSE`
ResponseType(requestType) ==
    IF requestType = "T" THEN "T_RESPONSE" ELSE "X_RESPONSE"

NoPayload ==
    [requestId |-> NoId, data |-> Undef, error |-> Undef,
     key |-> Undef, value |-> Undef]

NoEvent ==
    [type |-> Undef, source |-> Undef, target |-> Undef,
     payload |-> NoPayload, bubble |-> FALSE]

NoSub == [kind |-> "none", key |-> Undef]

\* a key of the sharedState map: absent, or a BehaviorSubject with its value.
\* lastOp and lastSet are history (not program state): whether the key was never
\* written, last written (with lastSet) or last removed/cleared
NoCell == [present |-> FALSE, value |-> Undef, lastOp |-> "never", lastSet |-> Undef]

\* a subscriber of subscribeToSharedState(key): the values it observed (seen).
\* written and cut are history: the values setSharedState(key, ...) wrote since it
\* subscribed, and how many of them were written before the key was first
\* removed or cleared (-1: not removed since)
NoStateSub ==
    [key |-> Undef, status |-> "none", seen |-> <<>>, written |-> <<>>, cut |-> -1]

\* filter((event) => event.type === eventType)
TypeFilter(key, ev) == ev.type = key

\* filter((event) => event.source === sourceId)
SourceFilter(key, ev) == ev.source = key

\* a target filter that passes every event
TargetFilterAny(key, ev) == TRUE

\* filter((event) => event.target === targetId)
TargetFilter(key, ev) == ev.target = key

\* whether the subscription s, a pipe over the one eventBus, passes ev on
Matches(s, ev) ==
    CASE s.kind = "type" -> TypeFilter(s.key, ev)
      [] s.kind = "widget" -> SourceFilter(s.key, ev)
      [] s.kind = "target" -> TargetFilter(s.key, ev)
      [] OTHER -> FALSE

\* the handlers eventBus.next(ev) calls: every live subscription whose filter passes
Recipients(ev) ==
    {[h |-> h, kind |-> subs[h].kind, key |-> subs[h].key] :
        h \in {k \in Handlers : Matches(subs[k], ev)}}

NoRequest ==
    [status |-> "free", type |-> Undef, target |-> Undef, requestId |-> NoId,
     subscribed |-> FALSE, timerActive |-> FALSE, deadline |-> 0,
     calls |-> 0, value |-> Undef, settledAt |-> 0, byEvent |-> NoEvent,
     matchSent |-> FALSE]

\* a response handler that does not compare the requestId
HandlerIgnoresId(r, ev) == TRUE

\* if (event.payload?.requestId === requestId)
HandlerAccepts(r, ev) == ev.payload.requestId = r.requestId

\* a response handler that leaves out clearTimeout(timeout)
SettleKeepsTimer(r, ev) ==
    [r EXCEPT !.subscribed = FALSE,
              !.calls = @ + 1,
              !.status = IF r.status # "pending" THEN r.status
                         ELSE IF ev.payload.error # Undef THEN "rejected_error"
                         ELSE "resolved",
              !.value = IF r.status # "pending" THEN r.value
                        ELSE IF ev.payload.error # Undef THEN ev.payload.error
                        ELSE ev.payload.data,
              !.settledAt = IF r.status # "pending" THEN r.settledAt ELSE now,
              !.byEvent = IF r.status # "pending" THEN r.byEvent ELSE ev]

\* the body of the response handler once the id matched: unsubscribe();
\* clearTimeout(timeout); reject(new Error(error)) or resolve(data).
\* A promise keeps its first settlement: calls counts the resolve/reject calls.
SettleByResponse(r, ev) ==
    [r EXCEPT !.subscribed = FALSE,
              !.timerActive = FALSE,
              !.calls = @ + 1,
              !.status = IF r.status # "pending" THEN r.status
                         ELSE IF ev.payload.error # Undef THEN "rejected_error"
                         ELSE "resolved",
              !.value = IF r.status # "pending" THEN r.value
                        ELSE IF ev.payload.error # Undef THEN ev.payload.error
                        ELSE ev.payload.data,
              !.settledAt = IF r.status # "pending" THEN r.settledAt ELSE now,
              !.byEvent = IF r.status # "pending" THEN r.byEvent ELSE ev]

\* what eventBus.next(ev) does to a request: its handler is a subscribe() to
\* `${requestType}_RESPONSE`, live until unsubscribe()
OnBusEvent(r, ev) ==
    IF r.subscribed /\ TypeFilter(ResponseType(r.type), ev) /\ HandlerAccepts(r, ev)
    THEN SettleByResponse(r, ev)
    ELSE r

\* eventBus.next(ev): reqs are the requests as the caller leaves them. lastEvent
\* is the last event that reached a handler of subscribe*/, with those handlers
Publish(ev, reqs) ==
    /\ lastEvent' = IF Recipients(ev) = {} THEN lastEvent
                    ELSE [ev |-> ev, to |-> Recipients(ev)]
    /\ requests' = [r \in ReqSlots |-> OnBusEvent(reqs[r], ev)]

\* broadcast(event): { ...event, timestamp, bubble: true }
BroadcastEvent(ev) == [ev EXCEPT !.bubble = TRUE]

\* send(targetId, event): { ...event, target: targetId, timestamp, bubble: false }
SendEvent(targetId, ev) == [ev EXCEPT !.target = targetId, !.bubble = FALSE]

InitComm ==
    /\ subs = [h \in Handlers |-> NoSub]
    /\ lastEvent = [ev |-> NoEvent, to |-> {}]
    /\ sharedState = [k \in Keys |-> NoCell]
    /\ stateSubs = [s \in StateSubIds |-> NoStateSub]
    /\ requests = [r \in ReqSlots |-> NoRequest]
    /\ now = 0

\* a new subscription takes the first free handler slot
FirstFree(h) ==
    subs[h].kind = "none" /\ \A k \in 1..(h - 1) : subs[k].kind # "none"

\* subscribe(eventType, handler)
Subscribe(h, eventType) ==
    /\ FirstFree(h)
    /\ subs' = [subs EXCEPT ![h] = [kind |-> "type", key |-> eventType]]
    /\ UNCHANGED <<lastEvent, sharedState, stateSubs, requests, now>>
    /\ OnlyComm

\* subscribeToWidget(sourceId, handler)
SubscribeToWidget(h, sourceId) ==
    /\ FirstFree(h)
    /\ subs' = [subs EXCEPT ![h] = [kind |-> "widget", key |-> sourceId]]
    /\ UNCHANGED <<lastEvent, sharedState, stateSubs, requests, now>>
    /\ OnlyComm

\* subscribeToTargetedEvents(targetId, handler)
SubscribeToTargetedEvents(h, targetId) ==
    /\ FirstFree(h)
    /\ subs' = [subs EXCEPT ![h] = [kind |-> "target", key |-> targetId]]
    /\ UNCHANGED <<lastEvent, sharedState, stateSubs, requests, now>>
    /\ OnlyComm

\* the function subscribe*/ returned: () => subscription.unsubscribe()
Unsubscribe(h) ==
    /\ subs[h].kind # "none"
    /\ subs' = [subs EXCEPT ![h] = NoSub]
    /\ UNCHANGED <<lastEvent, sharedState, stateSubs, requests, now>>
    /\ OnlyComm

\* broadcast(event), called with any event (a target given by the caller is kept)
Broadcast(type, source, target) ==
    /\ Publish(BroadcastEvent([NoEvent EXCEPT !.type = type, !.source = source,
                                              !.target = target]), requests)
    /\ UNCHANGED <<subs, sharedState, stateSubs, now>>
    /\ OnlyComm

\* send(targetId, event)
Send(targetId, type, source) ==
    /\ Publish(SendEvent(targetId, [NoEvent EXCEPT !.type = type, !.source = source]),
               requests)
    /\ UNCHANGED <<subs, sharedState, stateSubs, now>>
    /\ OnlyComm

(************************** shared state ***********************************)

StateEvent(type, key, value) ==
    BroadcastEvent([NoEvent EXCEPT !.type = type, !.source = "system",
                                   !.payload = [NoPayload EXCEPT !.key = key,
                                                                 !.value = value]])

\* a plain Subject in place of the BehaviorSubject: nothing on subscribe
CurrentValueNoReplay(cell) == <<>>

\* what a new subscriber of the key's BehaviorSubject is handed on subscribe:
\* the subject's value (undefined for the subject subscribeToSharedState creates)
CurrentValue(cell) == <<IF cell.present THEN cell.value ELSE Undef>>

\* a setSharedState that leaves out subject.next(value)
NextValueDropped(sub, key, value, wasPresent) == sub.seen

\* what setSharedState(key, value) shows a subscriber: subject.next(value) reaches
\* the live subscribers of the key's present subject; a subject created by this
\* call has no subscribers yet
NextValue(sub, key, value, wasPresent) ==
    IF wasPresent /\ sub.status = "active" /\ sub.key = key
    THEN Append(sub.seen, value)
    ELSE sub.seen

\* setSharedState(key, value)
SetSharedState(key, value) ==
    /\ \A s \in StateSubIds : Len(stateSubs[s].written) < MaxWrites
    /\ sharedState' = [sharedState EXCEPT ![key] =
                          [present |-> TRUE, value |-> value,
                           lastOp |-> "set", lastSet |-> value]]
    /\ stateSubs' = [s \in StateSubIds |->
          [stateSubs[s] EXCEPT
             !.seen = NextValue(stateSubs[s], key, value, sharedState[key].present),
             !.written = IF stateSubs[s].key = key
                            /\ stateSubs[s].status \in {"active", "completed"}
                         THEN Append(@, value) ELSE @]]
    /\ Publish(StateEvent("STATE_CHANGED", key, value), requests)
    /\ UNCHANGED <<subs, now>>
    /\ OnlyComm

\* subscribeToSharedState(key) and the subscribe() its caller makes at once
\* (BaseWidget.subscribeToSharedState)
SubscribeToSharedState(s, key) ==
    /\ stateSubs[s].status = "none"
    /\ \A k \in 1..(s - 1) : stateSubs[k].status # "none"
    /\ sharedState' = [sharedState EXCEPT ![key] =
                          IF @.present THEN @ ELSE [@ EXCEPT !.present = TRUE,
                                                             !.value = Undef]]
    /\ stateSubs' = [stateSubs EXCEPT ![s] =
                        [key |-> key, status |-> "active",
                         seen |-> CurrentValue(sharedState[key]),
                         written |-> <<>>, cut |-> -1]]
    /\ UNCHANGED <<subs, lastEvent, requests, now>>
    /\ OnlyComm

\* the subscriber unsubscribes
UnsubscribeSharedState(s) ==
    /\ stateSubs[s].status \in {"active", "completed"}
    /\ stateSubs' = [stateSubs EXCEPT ![s].status = "unsubscribed"]
    /\ UNCHANGED <<subs, lastEvent, sharedState, requests, now>>
    /\ OnlyComm

\* subject.complete() for the subjects of the keys ks, and their removal
CompleteSubs(ks) ==
    [s \in StateSubIds |->
        IF stateSubs[s].key \in ks /\ stateSubs[s].status \in {"active", "completed"}
        THEN [stateSubs[s] EXCEPT
                !.status = "completed",
                !.cut = IF @ = -1 THEN Len(stateSubs[s].written) ELSE @]
        ELSE stateSubs[s]]

\* removeSharedState(key)
RemoveSharedState(key) ==
    IF sharedState[key].present
    THEN /\ stateSubs' = CompleteSubs({key})
         /\ sharedState' = [sharedState EXCEPT ![key] =
                               [@ EXCEPT !.present = FALSE, !.value = Undef,
                                         !.lastOp = "removed"]]
         /\ Publish(StateEvent("STATE_REMOVED", key, Undef), requests)
         /\ UNCHANGED <<subs, now>>
         /\ OnlyComm
    ELSE UNCHANGED vars

\* clearSharedState()
ClearSharedState ==
    /\ stateSubs' = CompleteSubs({k \in Keys : sharedState[k].present})
    /\ sharedState' = [k \in Keys |->
                          IF sharedState[k].present
                          THEN [sharedState[k] EXCEPT !.present = FALSE,
                                                      !.value = Undef,
                                                      !.lastOp = "removed"]
                          ELSE sharedState[k]]
    /\ Publish(StateEvent("STATE_CLEARED", Undef, Undef), requests)
    /\ UNCHANGED <<subs, now>>
    /\ OnlyComm

(************************** request / response *****************************)

\* a timer set with no delay
DeadlineNow(start) == start

\* setTimeout(..., timeoutMs) set at time start fires no earlier than this
Deadline(start) == start + timeoutMs

\* generateRequestId(): `req_${Date.now()}_${Math.random()...}`
GenerateRequestId(rnd) == [ts |-> now, rnd |-> rnd]

ForeignId == [ts |-> 0, rnd |-> 0]

\* request(targetId, requestType, payload): the handler is subscribed, the timer
\* set, and the request sent with payload { requestId, ...payload }, in which a
\* requestId of the caller's payload replaces the generated one
Request(r, targetId, requestType, rnd, callerId) ==
    /\ requests[r].status = "free"
    /\ \A k \in 1..(r - 1) : requests[k].status # "free"
    /\ LET requestId == GenerateRequestId(rnd)
           new == [NoRequest EXCEPT !.status = "pending", !.type = requestType,
                                    !.target = targetId, !.requestId = requestId,
                                    !.subscribed = TRUE, !.timerActive = TRUE,
                                    !.deadline = Deadline(now)]
           sent == IF callerId # NoId THEN callerId ELSE requestId
       IN Publish(SendEvent(targetId,
                    [NoEvent EXCEPT !.type = requestType, !.source = "system",
                                    !.payload = [NoPayload EXCEPT !.requestId = sent]]),
                  [requests EXCEPT ![r] = new])
    /\ UNCHANGED <<subs, sharedState, stateSubs, now>>
    /\ OnlyComm

\* respond(requestEvent, responseData, error) for a request event of type
\* requestType from source carrying requestId (NoId: none, the call returns)
Respond(requestType, source, requestId, data, error) ==
    IF requestId = NoId
    THEN UNCHANGED vars
    ELSE /\ Publish(SendEvent(source,
                      [NoEvent EXCEPT !.type = ResponseType(requestType),
                                      !.source = "system",
                                      !.payload = [NoPayload EXCEPT
                                                     !.requestId = requestId,
                                                     !.data = data,
                                                     !.error = error]]),
                    [r \in ReqSlots |->
                        IF requests[r].status # "free"
                           /\ requests[r].type = requestType
                           /\ requests[r].requestId = requestId
                        THEN [requests[r] EXCEPT !.matchSent = TRUE]
                        ELSE requests[r]])
         /\ UNCHANGED <<subs, sharedState, stateSubs, now>>
         /\ OnlyComm

\* the setTimeout callback of request r: unsubscribe(); reject(timeout)
TimeoutFire(r) ==
    /\ requests[r].timerActive
    /\ now >= requests[r].deadline
    /\ requests' = [requests EXCEPT ![r] =
          [@ EXCEPT !.subscribed = FALSE,
                    !.timerActive = FALSE,
                    !.calls = @ + 1,
                    !.status = IF requests[r].status = "pending"
                               THEN "rejected_timeout" ELSE @,
                    !.settledAt = IF requests[r].status = "pending" THEN now ELSE @]]
    /\ UNCHANGED <<subs, lastEvent, sharedState, stateSubs, now>>
    /\ OnlyComm

\* time passes
Tick ==
    /\ now + TickMs <= MaxNow
    /\ now' = now + TickMs
    /\ UNCHANGED <<subs, lastEvent, sharedState, stateSubs, requests>>
    /\ OnlyComm

(***************************************************************************)
(*                   DashboardLayoutManagerService                         *)
(***************************************************************************)

\* ---- bound of the model: recorded changes per behaviour
MaxChanges == 2

\* ---- program constants
ScanRows == 1000
MaxRadius == 10
HistoryCap == 100

LayoutIds == {"a", "b"}

\* breakpoints, in the order of the table
BreakpointNames == <<"xs", "sm", "md", "lg", "xl">>

BreakpointOf(name) ==
    CASE name = "xs" -> [name |-> "xs", cols |-> 1, rowHeight |-> 100, margin |-> 8]
      [] name = "sm" -> [name |-> "sm", cols |-> 2, rowHeight |-> 100, margin |-> 10]
      [] name = "md" -> [name |-> "md", cols |-> 6, rowHeight |-> 100, margin |-> 12]
      [] name = "lg" -> [name |-> "lg", cols |-> 12, rowHeight |-> 100, margin |-> 15]
      [] OTHER -> [name |-> "xl", cols |-> 12, rowHeight |-> 120, margin |-> 20]

defaultGridConfig ==
    [cols |-> 12, rowHeight |-> 100, margin |-> 10, outerMargin |-> 10,
     responsive |-> TRUE]

\* the layouts widget definitions come with (cols, rows, optional min/max)
Layout(cols, rows, minCols, maxCols) ==
    [x |-> 0, y |-> 0, cols |-> cols, rows |-> rows,
     minCols |-> minCols, maxCols |-> maxCols, minRows |-> 0, maxRows |-> 0]

DefaultLayouts == {Layout(1, 1, 0, 0), Layout(2, 11, 2, 0)}

\* the positions and partial layouts callers pass
Positions == {[x |-> -1, y |-> 0], [x |-> 0, y |-> 0]}

\* a Partial<WidgetLayout> is a record of the fields it gives
PartialLayouts == {[x |-> 1], [y |-> 0], [cols |-> 1]}

\* { ...layout, ...partial }
Merge(layout, partial) ==
    [f \in DOMAIN layout |-> IF f \in DOMAIN partial THEN partial[f] ELSE layout[f]]

\* no layout: the previousLayout of a change that has none, the null of
\* resolveOverlaps
NoLayout == Layout(0, 0, 0, 0)

Max(a, b) == IF a >= b THEN a ELSE b
Min(a, b) == IF a <= b THEN a ELSE b

WidgetIndex(ws, id) ==
    IF \E i \in 1..Len(ws) : ws[i].id = id
    THEN CHOOSE i \in 1..Len(ws) : ws[i].id = id /\ \A j \in 1..(i - 1) : ws[j].id # id
    ELSE 0

\* !(x2 <= wx1 || x1 >= wx2 || y2 <= wy1 || y1 >= wy2)
Collide(a, b) ==
    ~(a.x + a.cols <= b.x \/ a.x >= b.x + b.cols
      \/ a.y + a.rows <= b.y \/ a.y >= b.y + b.rows)

\* hasOverlap(excludeInstanceId, layout) over the widgets ws
hasOverlap(ws, excludeInstanceId, layout) ==
    \E i \in 1..Len(ws) :
        ws[i].id # excludeInstanceId /\ Collide(layout, ws[i].layout)

\* validateLayout(layout)
validateLayout(layout, gridCols) ==
    /\ ~(layout.x < 0 \/ layout.y < 0)
    /\ ~(layout.x + layout.cols > gridCols)
    /\ ~(layout.minCols # 0 /\ layout.cols < layout.minCols)
    /\ ~(layout.maxCols # 0 /\ layout.cols > layout.maxCols)
    /\ ~(layout.minRows # 0 /\ layout.rows < layout.minRows)
    /\ ~(layout.maxRows # 0 /\ layout.rows > layout.maxRows)

\* Math.max(0, ...widgets.map(w => y + rows))
MaxBottom(ws) ==
    LET bottoms == {ws[i].layout.y + ws[i].layout.rows : i \in 1..Len(ws)} \cup {0}
    IN CHOOSE m \in bottoms : \A n \in bottoms : n <= m

\* the least of a non-empty set of integers
Least(S) == CHOOSE m \in S : \A n \in S : m <= n

\* the last row a scan `for (y = 0; y < 1000; y++)` has to visit when nothing
\* reaches below row bottom: the rows from bottom on are all empty, so a scan
\* that has any x to try ends in row bottom at the latest, and one that has
\* none finds nothing in any row
LastScanRow(bottom) == Min(ScanRows - 1, bottom)

\* the loops of findOptimalPosition from row y on: the first (x, y) that
\* overlaps no widget, or the fallback below all widgets
RECURSIVE ScanOptimal(_, _, _, _, _)
ScanOptimal(ws, layout, gridCols, y, lastRow) ==
    IF y > lastRow
    THEN [x |-> 0, y |-> MaxBottom(ws)]
    ELSE LET free == {x \in 0..(gridCols - layout.cols) :
                        ~hasOverlap(ws, "", [layout EXCEPT !.x = x, !.y = y])}
         IN IF free # {}
            THEN [x |-> Least(free), y |-> y]
            ELSE ScanOptimal(ws, layout, gridCols, y + 1, lastRow)

\* findOptimalPosition(layout)
findOptimalPosition(ws, layout, gridCols) ==
    ScanOptimal(ws, layout, gridCols, 0, LastScanRow(MaxBottom(ws)))

\* the offsets (dx, dy) of resolveOverlaps at one radius
RingOffsets(radius) ==
    {d \in (-radius..radius) \X (-radius..radius) :
        d[1] = radius \/ d[1] = -radius \/ d[2] = radius \/ d[2] = -radius}

\* the test layout of resolveOverlaps at offset d
CandidateAt(layout, d) ==
    [layout EXCEPT !.x = Max(0, layout.x + d[1]), !.y = Max(0, layout.y + d[2])]

\* the loops of resolveOverlaps from radius on (dx outer, dy inner): the first
\* test layout that is valid and overlaps nothing, NoLayout for null
RECURSIVE ResolveFrom(_, _, _, _, _)
ResolveFrom(ws, instanceId, layout, gridCols, radius) ==
    IF radius > MaxRadius
    THEN NoLayout
    ELSE LET ok == {d \in RingOffsets(radius) :
                      /\ validateLayout(CandidateAt(layout, d), gridCols)
                      /\ ~hasOverlap(ws, instanceId, CandidateAt(layout, d))}
             dx == Least({d[1] : d \in ok})
             dy == Least({d[2] : d \in {e \in ok : e[1] = dx}})
         IN IF ok # {}
            THEN CandidateAt(layout, <<dx, dy>>)
            ELSE ResolveFrom(ws, instanceId, layout, gridCols, radius + 1)

\* a resolveOverlaps that takes the first candidate that passes validateLayout
resolveFirstValid(ws, instanceId, layout, gridCols) ==
    ResolveFrom(<<>>, instanceId, layout, gridCols, 1)

\* resolveOverlaps(instanceId, layout)
resolveOverlaps(ws, instanceId, layout, gridCols) ==
    ResolveFrom(ws, instanceId, layout, gridCols, 1)

\* a recordLayoutChange that never drops a record
recordUncapped(changes, change) == Append(changes, change)

\* recordLayoutChange(change): append, keep the last HistoryCap
recordLayoutChange(changes, change) ==
    LET updated == Append(changes, change)
    IN IF Len(updated) > HistoryCap
       THEN SubSeq(updated, Len(updated) - HistoryCap + 1, Len(updated))
       ELSE updated

Change(type, instanceId, layout, previousLayout) ==
    [type |-> type, instanceId |-> instanceId, layout |-> layout,
     previousLayout |-> previousLayout]

Ret(op, id, result, why) == [op |-> op, id |-> id, result |-> result, why |-> why]

\* the widget of the changes recorded before a behaviour starts
PastId == "w0"

\* the number of records of the history that the behaviour itself has added
Recorded(changes) ==
    Cardinality({k \in 1..Len(changes) : changes[k].instanceId # PastId})

\* the history after n / 2 widgets were added without a position to the empty
\* dashboard and removed again, each one row higher than the one before
PastChanges(n) ==
    [k \in 1..n |->
        Change(IF k % 2 = 1 THEN "add" ELSE "remove", PastId,
               [Layout(1, (k + 1) \div 2, 0, 0) EXCEPT !.x = 0, !.y = 0], NoLayout)]

\* the service after HistoryCap changes: the history is full, the dashboard
\* empty again
LayoutWithFullHistory ==
    /\ breakpoint = "lg"
    /\ dashboard = [id |-> "default", title |-> "Dashboard"]
    /\ grid = [defaultGridConfig EXCEPT !.cols = BreakpointOf("lg").cols,
                                        !.rowHeight = BreakpointOf("lg").rowHeight,
                                        !.margin = BreakpointOf("lg").margin]
    /\ widgets = <<>>
    /\ layoutChanges = PastChanges(HistoryCap)
    /\ layoutRet = Ret("removeWidget", PastId, TRUE, Undef)

\* the constructor: setupResponsiveBreakpoints() takes the breakpoint of the
\* viewport the service starts in
LayoutStart(name) ==
    /\ breakpoint = name
    /\ dashboard = [id |-> "default", title |-> "Dashboard"]
    /\ grid = [defaultGridConfig EXCEPT !.cols = BreakpointOf(name).cols,
                                        !.rowHeight = BreakpointOf(name).rowHeight,
                                        !.margin = BreakpointOf(name).margin]
    /\ widgets = <<>>
    /\ layoutChanges = <<>>
    /\ layoutRet = Ret("init", Undef, TRUE, Undef)

\* the viewports the layout engine is run in: the sets of media queries that
\* match (extra-small, small, small and medium at once, none)
Viewports == {{"xs"}, {"sm"}, {"sm", "md"}, {}}


\* new Date(): a Date object of the time ms
Date(ms) == [type |-> "Date", ms |-> ms]

\* addWidget(instance, position) from `instance.config.layout = ...` on; the
\* instance carries the createdAt / updatedAt its creator gave it
PlaceWidget(id, layout, pos, how) ==
    /\ Recorded(layoutChanges) < MaxChanges
    /\ \A i \in 1..Len(widgets) : widgets[i].id # id
    /\ LET placed == [layout EXCEPT !.x = pos.x, !.y = pos.y]
       IN /\ widgets' = Append(widgets, [id |-> id, layout |-> placed,
                                         createdAt |-> Date(now),
                                         updatedAt |-> Date(now)])
          /\ layoutChanges' = recordLayoutChange(layoutChanges,
                                                 Change("add", id, placed, NoLayout))
          /\ layoutRet' = Ret("addWidget", id, TRUE, how)
    /\ UNCHANGED <<dashboard, grid, breakpoint>>

\* addWidget(instance) of a new instance id whose config.layout is layout
AddWidget(id, layout) ==
    PlaceWidget(id, layout, findOptimalPosition(widgets, layout, grid.cols), "auto")

\* addWidget(instance, position)
AddWidgetAt(id, layout, position) ==
    PlaceWidget(id, layout, position, "explicit")

\* removeWidget(instanceId)
RemoveWidget(id) ==
    LET i == WidgetIndex(widgets, id)
    IN IF i = 0
       THEN /\ layoutRet' = Ret("removeWidget", id, FALSE, "unknown")
            /\ UNCHANGED <<dashboard, grid, widgets, layoutChanges, breakpoint>>
       ELSE /\ Recorded(layoutChanges) < MaxChanges
            /\ widgets' = SelectSeq(widgets, LAMBDA w : w.id # id)
            /\ layoutChanges' = recordLayoutChange(layoutChanges,
                                  Change("remove", id, widgets[i].layout, NoLayout))
            /\ layoutRet' = Ret("removeWidget", id, TRUE, Undef)
            /\ UNCHANGED <<dashboard, grid, breakpoint>>

\* an updateWidgetLayout that assigns the layout before it validates it
RejectedApplied(ws, i, updatedLayout) == [ws EXCEPT ![i].layout = updatedLayout]

\* the widgets after an updateWidgetLayout that returns false: both returns come
\* before any assignment to widget.config.layout
Rejected(ws, i, updatedLayout) == ws

\* updateWidgetLayout(instanceId, layout)
UpdateWidgetLayout(id, partial) ==
    LET i == WidgetIndex(widgets, id)
    IN IF i = 0
       THEN /\ layoutRet' = Ret("updateWidgetLayout", id, FALSE, "unknown")
            /\ UNCHANGED <<dashboard, grid, widgets, layoutChanges, breakpoint>>
       ELSE LET previousLayout == widgets[i].layout
                updatedLayout == Merge(widgets[i].layout, partial)
                resolvedLayout == resolveOverlaps(widgets, id, updatedLayout, grid.cols)
                overlap == hasOverlap(widgets, id, updatedLayout)
                applied == IF overlap THEN resolvedLayout ELSE updatedLayout
            IN IF ~validateLayout(updatedLayout, grid.cols)
               THEN /\ layoutRet' = Ret("updateWidgetLayout", id, FALSE, "invalid")
                    /\ widgets' = Rejected(widgets, i, updatedLayout)
                    /\ UNCHANGED <<dashboard, grid, layoutChanges, breakpoint>>
               ELSE IF overlap /\ resolvedLayout = NoLayout
               THEN /\ layoutRet' = Ret("updateWidgetLayout", id, FALSE, "overlap")
                    /\ widgets' = Rejected(widgets, i, updatedLayout)
                    /\ UNCHANGED <<dashboard, grid, layoutChanges, breakpoint>>
               ELSE /\ Recorded(layoutChanges) < MaxChanges
                    /\ widgets' = [widgets EXCEPT ![i].layout = applied]
                    /\ layoutChanges' = recordLayoutChange(layoutChanges,
                          Change(IF "x" \in DOMAIN partial \/ "y" \in DOMAIN partial
                                 THEN "move" ELSE "resize",
                                 id, applied, previousLayout))
                    /\ layoutRet' = Ret("updateWidgetLayout", id, TRUE,
                                        IF overlap THEN "resolved" ELSE "free")
                    /\ UNCHANGED <<dashboard, grid, breakpoint>>

\* the comparator of compactLayout's sort: by y, then by x
SortsBefore(a, b) ==
    IF a.layout.y # b.layout.y THEN a.layout.y < b.layout.y
    ELSE a.layout.x < b.layout.x

\* [...widgets].sort(comparator): Array.prototype.sort is stable
RECURSIVE SortWidgets(_)
SortWidgets(ws) ==
    IF ws = <<>> THEN <<>>
    ELSE LET i == CHOOSE k \in 1..Len(ws) :
                     /\ \A j \in 1..Len(ws) : ~SortsBefore(ws[j], ws[k])
                     /\ \A j \in 1..(k - 1) : SortsBefore(ws[k], ws[j])
                                              \/ SortsBefore(ws[j], ws[k])
             rest == [j \in 1..(Len(ws) - 1) |-> IF j < i THEN ws[j] ELSE ws[j + 1]]
         IN <<ws[i]>> \o SortWidgets(rest)

Cells(x, y, layout) ==
    {<<cx, cy>> : cx \in x..(x + layout.cols - 1), cy \in y..(y + layout.rows - 1)}

\* the first row below every occupied cell
OccupiedBottom(occupied) ==
    LET bottoms == {c[2] + 1 : c \in occupied} \cup {0}
    IN CHOOSE m \in bottoms : \A n \in bottoms : n <= m

\* the loops of findCompactPosition from row y on: the first (x, y) whose cells
\* are all free, or the fallback (0, 0)
RECURSIVE ScanCompact(_, _, _, _, _)
ScanCompact(layout, gridCols, occupied, y, lastRow) ==
    IF y > lastRow
    THEN [x |-> 0, y |-> 0]
    ELSE LET free == {x \in 0..(gridCols - layout.cols) :
                        Cells(x, y, layout) \cap occupied = {}}
         IN IF free # {}
            THEN [x |-> Least(free), y |-> y]
            ELSE ScanCompact(layout, gridCols, occupied, y + 1, lastRow)

\* findCompactPosition(layout, gridCols, occupiedPositions)
findCompactPosition(layout, gridCols, occupied) ==
    ScanCompact(layout, gridCols, occupied, 0, LastScanRow(OccupiedBottom(occupied)))

\* compactWidgets(widgets): each widget in turn, marking the cells it takes
RECURSIVE compactWidgets(_, _, _)
compactWidgets(ws, gridCols, occupied) ==
    IF ws = <<>> THEN <<>>
    ELSE LET layout == ws[1].layout
             pos == findCompactPosition(layout, gridCols, occupied)
         IN <<[ws[1] EXCEPT !.layout = [layout EXCEPT !.x = pos.x, !.y = pos.y]]>>
            \o compactWidgets(Tail(ws), gridCols,
                              occupied \cup Cells(pos.x, pos.y, layout))

\* compactLayout()
CompactLayout ==
    /\ widgets' = compactWidgets(SortWidgets(widgets), grid.cols, {})
    /\ layoutRet' = Ret("compactLayout", Undef, TRUE, Undef)
    /\ UNCHANGED <<dashboard, grid, layoutChanges, breakpoint>>

\* clearLayoutHistory()
ClearLayoutHistory ==
    /\ layoutChanges' = <<>>
    /\ layoutRet' = Ret("clearLayoutHistory", Undef, TRUE, Undef)
    /\ UNCHANGED <<dashboard, grid, widgets, breakpoint>>

\* an optimizeWidgetForBreakpoint that adjusts the columns and keeps x
optimizeColsOnly(layout, bp) ==
    [layout EXCEPT !.cols = Max(1, Min(layout.cols, bp.cols))]

\* optimizeWidgetForBreakpoint(layout, breakpoint)
optimizeWidgetForBreakpoint(layout, bp) ==
    LET adjustedCols == Max(1, Min(layout.cols, bp.cols))
    IN [layout EXCEPT !.cols = adjustedCols,
                      !.x = Min(layout.x, Max(0, bp.cols - adjustedCols))]

\* optimizeLayoutForBreakpoint() for the widgets ws
optimizeLayoutForBreakpoint(ws, bp) ==
    [i \in 1..Len(ws) |->
        [ws[i] EXCEPT !.layout = optimizeWidgetForBreakpoint(ws[i].layout, bp)]]

\* optimizeLayoutForBreakpoint(), called by a user of the service
OptimizeLayoutForBreakpoint ==
    /\ widgets' = optimizeLayoutForBreakpoint(widgets, BreakpointOf(breakpoint))
    /\ layoutRet' = Ret("optimizeLayoutForBreakpoint", Undef, TRUE, Undef)
    /\ UNCHANGED <<dashboard, grid, layoutChanges, breakpoint>>

\* a findIndex that keeps the last match of the table
LastMatchingBreakpoint(matching) ==
    IF \E i \in 1..Len(BreakpointNames) : BreakpointNames[i] \in matching
    THEN BreakpointNames[CHOOSE i \in 1..Len(BreakpointNames) :
                            /\ BreakpointNames[i] \in matching
                            /\ \A j \in (i + 1)..Len(BreakpointNames) :
                                  BreakpointNames[j] \notin matching]
    ELSE BreakpointNames[4]

\* the active breakpoint for the set of matching media queries: the first match
\* in the table's order, breakpoints[3] (lg) when none matches
ActiveBreakpoint(matching) ==
    IF \E i \in 1..Len(BreakpointNames) : BreakpointNames[i] \in matching
    THEN BreakpointNames[CHOOSE i \in 1..Len(BreakpointNames) :
                            /\ BreakpointNames[i] \in matching
                            /\ \A j \in 1..(i - 1) : BreakpointNames[j] \notin matching]
    ELSE BreakpointNames[4]

\* the subscriber of setupResponsiveBreakpoints(), on a change of the viewport to
\* one where the media queries in matching match (distinctUntilChanged by name)
BreakpointChange(matching) ==
    LET bp == BreakpointOf(ActiveBreakpoint(matching))
    IN /\ bp.name # breakpoint
       /\ breakpoint' = bp.name
       /\ grid' = [grid EXCEPT !.cols = bp.cols, !.rowHeight = bp.rowHeight,
                               !.margin = bp.margin]
       /\ widgets' = IF grid.responsive
                     THEN optimizeLayoutForBreakpoint(widgets, bp)
                     ELSE widgets
       /\ layoutRet' = Ret("breakpoint", Undef, TRUE, Undef)
       /\ UNCHANGED <<dashboard, layoutChanges>>

\* updateGridConfig(gridConfig) with { responsive } or { cols }
UpdateGridConfig(field, value) ==
    /\ grid' = [grid EXCEPT ![field] = value]
    /\ layoutRet' = Ret("updateGridConfig", Undef, TRUE, Undef)
    /\ UNCHANGED <<dashboard, widgets, layoutChanges, breakpoint>>

(************************ export / import **********************************)

\* the titles updateDashboardConfig is given
Titles == {"Sales", ""}

\* updateDashboardConfig({ title })
UpdateDashboardConfig(title) ==
    /\ dashboard' = [dashboard EXCEPT !.title = title]
    /\ layoutRet' = Ret("updateDashboardConfig", Undef, TRUE, Undef)
    /\ UNCHANGED <<grid, widgets, layoutChanges, breakpoint>>

\* JSON.stringify of a Date: Date.prototype.toJSON gives the ISO string
ToJSON(date) == [type |-> "string", ms |-> date.ms]

\* JSON.stringify of a widget: the strings and numbers as they are, the
\* timestamps as strings (a timestamp that is a string already stays one)
WidgetToJSON(w) ==
    [w EXCEPT !.createdAt = ToJSON(@), !.updatedAt = ToJSON(@)]

\* no grid: the config.grid of a document without one
NoGrid == [defaultGridConfig EXCEPT !.cols = 0, !.rowHeight = 0]

\* what JSON.parse makes of a text: parses is whether it returns at all, the
\* other fields are the members of the object it returns (Undef, NoGrid, not
\* an array: the member is missing)
Document(id, title, gridConfig, ws) ==
    [parses |-> TRUE, id |-> id, title |-> title, grid |-> gridConfig,
     widgetsIsArray |-> TRUE, widgets |-> ws]

\* exportDashboard(): JSON.stringify(this.dashboardConfig.value, null, 2), as
\* the document JSON.parse reads back from it
exportDashboard ==
    Document(dashboard.id, dashboard.title, grid,
             [i \in 1..Len(widgets) |-> WidgetToJSON(widgets[i])])

\* the documents importDashboard is given besides exports: one of another
\* dashboard, and ones that do not parse or miss a required member
OtherDashboard == Document("d2", "Imported", defaultGridConfig, <<>>)
Documents ==
    {OtherDashboard,
     [OtherDashboard EXCEPT !.parses = FALSE],
     [OtherDashboard EXCEPT !.id = Undef],
     [OtherDashboard EXCEPT !.title = Undef],
     [OtherDashboard EXCEPT !.title = ""],
     [OtherDashboard EXCEPT !.grid = NoGrid],
     [OtherDashboard EXCEPT !.widgetsIsArray = FALSE, !.widgets = <<>>]}

\* !value of a string member
Falsy(value) == value \in {Undef, ""}

\* a validateDashboardConfig that does not look at the title
validateWithoutTitle(doc) ==
    ~(Falsy(doc.id) \/ doc.grid = NoGrid \/ ~doc.widgetsIsArray)

\* validateDashboardConfig(config): TRUE when it does not throw
validateDashboardConfig(doc) ==
    ~(Falsy(doc.id) \/ Falsy(doc.title) \/ doc.grid = NoGrid
      \/ ~doc.widgetsIsArray)

\* importDashboard(configJson), the text being that of doc
ImportDashboard(doc, how) ==
    IF doc.parses /\ validateDashboardConfig(doc)
    THEN /\ dashboard' = [id |-> doc.id, title |-> doc.title]
         /\ grid' = doc.grid
         /\ widgets' = doc.widgets
         /\ layoutRet' = Ret("importDashboard", Undef, TRUE, how)
         /\ UNCHANGED <<layoutChanges, breakpoint>>
    ELSE /\ layoutRet' = Ret("importDashboard", Undef, FALSE, how)
         /\ UNCHANGED <<dashboard, grid, widgets, layoutChanges, breakpoint>>

(***************************************************************************)
(*                       WidgetRegistryService                             *)
(***************************************************************************)

\* ---- bound of the model: the definitions of one registerMany call
MaxDefs == 2

\* a WidgetDefinition with every required field: a direct component, no lazy
\* loader, no dependencies
ValidDef(type, category) ==
    [type |-> type, name |-> "name", category |-> category, component |-> TRUE,
     lazy |-> FALSE, loadComponent |-> FALSE, defaultConfig |-> TRUE,
     dependencies |-> <<>>]

\* no definition: the undefined of getWidget
NoDefinition == ValidDef(Undef, Undef)

TodoA == ValidDef("todo", "A")
TodoB == ValidDef("todo", "B")
Needy == [ValidDef("needy", "A") EXCEPT !.dependencies = <<"missing-type">>]
LazyDef == [ValidDef("lazy", "B") EXCEPT !.component = FALSE, !.lazy = TRUE,
                                        !.loadComponent = TRUE]

\* the definitions callers register: valid ones (the type todo in two
\* categories) and ones that miss a required field
ValidDefinitions == {TodoA, TodoB, Needy, LazyDef}
InvalidDefinitions ==
    {[TodoB EXCEPT !.type = Undef], [TodoB EXCEPT !.name = Undef],
     [TodoB EXCEPT !.category = Undef], [TodoB EXCEPT !.defaultConfig = FALSE],
     [TodoB EXCEPT !.component = FALSE],
     [TodoB EXCEPT !.component = FALSE, !.lazy = TRUE],
     [TodoB EXCEPT !.component = FALSE, !.loadComponent = TRUE]}
Definitions == ValidDefinitions \cup InvalidDefinitions

\* the lists a registerMany call is given: valid and invalid definitions in
\* every order
ListDefinitions ==
    {TodoA, LazyDef, [TodoB EXCEPT !.name = Undef],
     [TodoB EXCEPT !.category = Undef]}
DefinitionLists ==
    UNION {[1..n -> ListDefinitions] : n \in 0..MaxDefs}

\* the three structures of the registry as one value
RegState(ws, cats, subject) ==
    [widgets |-> ws, categories |-> cats, subject |-> subject]

EmptyRegistry == RegState(<<>>, <<>>, <<>>)

\* the first index of a sequence whose element has the key, 0 for none
\* (Map.get / Array.findIndex)
IndexOf(seq, key, field) ==
    IF \E i \in 1..Len(seq) : seq[i][field] = key
    THEN CHOOSE i \in 1..Len(seq) :
            seq[i][field] = key /\ \A j \in 1..(i - 1) : seq[j][field] # key
    ELSE 0

\* a sequence without its element i (Map.delete / Array.splice(i, 1))
Without(seq, i) ==
    [j \in 1..(Len(seq) - 1) |-> IF j < i THEN seq[j] ELSE seq[j + 1]]

\* hasWidget(type) on the catalog ws
hasWidget(ws, type) == IndexOf(ws, type, "type") # 0

\* getWidget(type) on the catalog ws
getWidgetIn(ws, type) ==
    IF hasWidget(ws, type) THEN ws[IndexOf(ws, type, "type")] ELSE NoDefinition

\* validateDefinition(definition): "ok", or the field the thrown error names
validateDefinition(definition) ==
    IF definition.type = Undef THEN "type"
    ELSE IF definition.name = Undef THEN "name"
    ELSE IF ~definition.component
            /\ (~definition.lazy \/ ~definition.loadComponent) THEN "component"
    ELSE IF definition.category = Undef THEN "category"
    ELSE IF ~definition.defaultConfig THEN "defaultConfig"
    ELSE "ok"

\* this.widgets.set(definition.type, definition): a present key keeps its place
MapSet(ws, definition) ==
    IF hasWidget(ws, definition.type)
    THEN [ws EXCEPT ![IndexOf(ws, definition.type, "type")] = definition]
    ELSE Append(ws, definition)

\* updateCategoryMapping(definition)
updateCategoryMapping(cats, definition) ==
    LET c == IndexOf(cats, definition.category, "category")
        present == IF c = 0
                   THEN Append(cats, [category |-> definition.category,
                                      widgets |-> <<>>])
                   ELSE cats
        k == IndexOf(present, definition.category, "category")
        existingIndex == IndexOf(present[k].widgets, definition.type, "type")
    IN IF existingIndex # 0
       THEN [present EXCEPT ![k].widgets[existingIndex] = definition]
       ELSE [present EXCEPT ![k].widgets = Append(@, definition)]

\* removeCategoryMapping(definition)
removeCategoryMapping(cats, definition) ==
    LET c == IndexOf(cats, definition.category, "category")
        index == IndexOf(cats[c].widgets, definition.type, "type")
        spliced == IF index # 0 THEN Without(cats[c].widgets, index)
                   ELSE cats[c].widgets
    IN IF c = 0 THEN cats
       ELSE IF spliced = <<>> THEN Without(cats, c)
       ELSE [cats EXCEPT ![c].widgets = spliced]

\* a register that stores the definition before it validates it
registerUnchecked(st, definition) ==
    LET ws == MapSet(st.widgets, definition)
    IN RegState(ws, updateCategoryMapping(st.categories, definition), ws)

\* register(definition) on the registry st, for a call that does not throw
\* before the registry is written: set, updateCategoryMapping, notifyChange
registerValid(st, definition) ==
    IF validateDefinition(definition) # "ok" THEN st
    ELSE LET ws == MapSet(st.widgets, definition)
         IN RegState(ws, updateCategoryMapping(st.categories, definition), ws)

\* a forEach that goes on after a register that threw
RECURSIVE registerManySkipping(_, _)
registerManySkipping(st, defs) ==
    IF defs = <<>> THEN [st |-> st, failedAt |-> 0]
    ELSE LET rest == registerManySkipping(registerValid(st, Head(defs)), Tail(defs))
         IN [st |-> rest.st,
             failedAt |-> IF validateDefinition(Head(defs)) # "ok" THEN 1
                          ELSE IF rest.failedAt = 0 THEN 0 ELSE rest.failedAt + 1]

\* definitions.forEach((definition) => this.register(definition)): the registry
\* it leaves and the index of the definition whose register threw (0: none)
RECURSIVE registerMany(_, _)
registerMany(st, defs) ==
    IF defs = <<>> THEN [st |-> st, failedAt |-> 0]
    ELSE IF validateDefinition(Head(defs)) # "ok" THEN [st |-> st, failedAt |-> 1]
    ELSE LET rest == registerMany(registerValid(st, Head(defs)), Tail(defs))
         IN [st |-> rest.st,
             failedAt |-> IF rest.failedAt = 0 THEN 0 ELSE rest.failedAt + 1]

\* the registry as it is
Registry == RegState(regWidgets, categories, widgetSubject)

\* getWidget(type)
getWidget(type) == getWidgetIn(regWidgets, type)

\* checkDependencies(type)
checkDependencies(type) ==
    LET definition == getWidget(type)
        missing == SelectSeq(definition.dependencies,
                             LAMBDA dep : ~hasWidget(regWidgets, dep))
    IN IF definition = NoDefinition
       THEN [satisfied |-> TRUE, missing |-> <<>>]
       ELSE [satisfied |-> missing = <<>>, missing |-> missing]

\* getCategories()
getCategories == [i \in 1..Len(categories) |-> categories[i].category]

\* getWidgetsByCategory(category)
getWidgetsByCategory(category) ==
    IF IndexOf(categories, category, "category") = 0 THEN <<>>
    ELSE categories[IndexOf(categories, category, "category")].widgets

\* what a registry call did: its result, whether it threw and the field its
\* error names; defs remembers the definitions the call was given
RegRet(op, type, result, raised, message) ==
    [op |-> op, type |-> type, result |-> result, raised |-> raised,
     message |-> message, defs |-> <<>>]

\* the registry holds st
RegistryIs(st) ==
    /\ regWidgets = st.widgets
    /\ categories = st.categories
    /\ widgetSubject = st.subject

\* the constructor
InitReg ==
    /\ RegistryIs(EmptyRegistry)
    /\ regRet = RegRet("init", Undef, TRUE, FALSE, Undef)

\* the registry takes the value st
SetRegistry(st) ==
    /\ regWidgets' = st.widgets
    /\ categories' = st.categories
    /\ widgetSubject' = st.subject

\* register(definition)
Register(definition) ==
    /\ SetRegistry(registerValid(Registry, definition))
    /\ regRet' = [RegRet("register", definition.type,
                         validateDefinition(definition) = "ok",
                         validateDefinition(definition) # "ok",
                         validateDefinition(definition))
                    EXCEPT !.defs = <<definition>>]

\* registerMany(definitions)
RegisterMany(defs) ==
    LET done == registerMany(Registry, defs)
    IN /\ SetRegistry(done.st)
       /\ regRet' = [RegRet("registerMany", Undef, done.failedAt = 0,
                            done.failedAt # 0,
                            IF done.failedAt = 0 THEN "ok"
                            ELSE validateDefinition(defs[done.failedAt]))
                       EXCEPT !.defs = defs]

\* unregister(type)
Unregister(type) ==
    IF ~hasWidget(regWidgets, type)
    THEN /\ regRet' = RegRet("unregister", type, FALSE, FALSE, Undef)
         /\ UNCHANGED <<regWidgets, categories, widgetSubject>>
    ELSE LET definition == getWidget(type)
             ws == Without(regWidgets, IndexOf(regWidgets, type, "type"))
         IN /\ SetRegistry(RegState(ws,
                                    removeCategoryMapping(categories, definition),
                                    ws))
            /\ regRet' = RegRet("unregister", type, TRUE, FALSE, Undef)

\* export()
Export == [widgets |-> regWidgets, categories |-> getCategories]

\* import(data): widgets.clear(), categories.clear(), registerMany(data.widgets);
\* nothing is notified for a data.widgets that is empty (or absent)
Import(defs) ==
    LET done == registerMany(RegState(<<>>, <<>>, widgetSubject), defs)
    IN /\ SetRegistry(done.st)
       /\ regRet' = [RegRet("import", Undef, done.failedAt = 0,
                            done.failedAt # 0,
                            IF done.failedAt = 0 THEN "ok"
                            ELSE validateDefinition(defs[done.failedAt]))
                       EXCEPT !.defs = defs]

(***************************************************************************)
(*                     WidgetOrchestratorService                           *)
(***************************************************************************)

\* the types createWidget is called with: of the registry the application
\* starts the orchestrator with, "todo" is registered, "needy" is registered
\* with a dependency that is not, "nowidget" is not registered
WidgetTypes == {"todo", "needy", "nowidget"}

\* what the application registers at startup
StartupDefinitions == <<TodoA, Needy>>

\* the random suffixes Math.random() gives the instance ids of the model
InstanceRnds == {"r1", "r2"}

\* generateInstanceId(type): `${type}_${Date.now()}_${Math.random()...}`
generateInstanceId(type, rnd) == [type |-> type, ts |-> now, rnd |-> rnd]

\* the instanceId '' of a CREATION_FAILED error, and no id at all
NoInstanceId == [type |-> Undef, ts |-> -1, rnd |-> Undef]

NoError == [instanceId |-> NoInstanceId, code |-> Undef, recoverable |-> FALSE]

WidgetError(instanceId, code, recoverable) ==
    [instanceId |-> instanceId, code |-> code, recoverable |-> recoverable]

\* ---- bound of the model: the data-provider subscriptions that are subscribed
\* or held by the subscriptions map at one time
MaxStreams == 2

\* the partial configs of the updates and the values of provider data
ConfigValues == {[title |-> "c1"]}
DataValues == {"d1"}

\* { ...config, ...partial }: the fields of the partial config replace those of
\* the config and the others stay
MergeConfig(config, partial) ==
    [f \in DOMAIN config \cup DOMAIN partial |->
        IF f \in DOMAIN partial THEN partial[f] ELSE config[f]]

\* the defaultConfig of the definitions, and a call that overrides nothing
DefaultConfig == [title |-> "defaults"]
NoOverrides == <<>>

\* { ...definition.defaultConfig, ...config, type }
widgetConfig(type, config) ==
    MergeConfig(MergeConfig(DefaultConfig, config), [type |-> type])

\* an entry of the instances map; inTable is whether the map still holds the
\* object (a destroyed instance object outlives its entry)
Instance(type, config, hasDataSource) ==
    [inTable |-> TRUE, type |-> type, state |-> "initializing",
     dataSource |-> hasDataSource, error |-> Undef, data |-> Undef,
     config |-> widgetConfig(type, config)]

Live(insts, id) == id \in DOMAIN insts /\ insts[id].inTable

\* getAllWidgets()
getAllWidgets == {id \in DOMAIN instances : instances[id].inTable}

\* updateInstanceState(instanceId, state)
updateInstanceState(insts, id, state) ==
    IF Live(insts, id) THEN [insts EXCEPT ![id].state = state] ELSE insts

\* a handleWidgetError that writes to an instance object the map has dropped
handleWidgetErrorAnyEntry(insts, id, code) ==
    IF id \in DOMAIN insts
    THEN [insts EXCEPT ![id].state = "error", ![id].error = code]
    ELSE insts

\* handleWidgetError(instanceId, error): what it does to the instances
handleWidgetError(insts, id, code) ==
    IF Live(insts, id)
    THEN [insts EXCEPT ![id].state = "error", ![id].error = code]
    ELSE insts

\* the state change updateInstanceState / handleWidgetError makes to the
\* instance of the id, as <<from, to>>; none for an id the map does not hold
Edges(insts, id, to) ==
    IF Live(insts, id) /\ insts[id].state # to
    THEN << <<insts[id].state, to>> >> ELSE <<>>

\* no onEvent call
NoCalls == [id \in {} |-> 0]

\* what an orchestrator call did.  type is the type a createWidget was called
\* with, message and missing are the text of the error it threw; phase is
\* "call" for a call that ran to its end, "await" for one that now waits at its
\* await, "resume" for the rest of one that waited; edges are the state changes it made
\* to the instance of the id; source, target, bubble are the event of an
\* emitEvent and invoked counts the onEvent calls it made per component
OrchRet(op, id, result, raised, wasLive, thrownAt) ==
    [op |-> op, id |-> id, result |-> result, raised |-> raised,
     wasLive |-> wasLive, thrownAt |-> thrownAt,
     type |-> Undef, message |-> Undef, missing |-> <<>>,
     phase |-> "call", edges |-> <<>>,
     source |-> NoInstanceId, target |-> NoInstanceId, bubble |-> FALSE,
     invoked |-> NoCalls, entered |-> 1]

\* a checkDependencies that reports every dependency as present
DependenciesSatisfied(type) == [satisfied |-> TRUE, missing |-> <<>>]

\* const depCheck = this.widgetRegistry.checkDependencies(type)
DepCheck(type) == checkDependencies(type)

InitOrch ==
    /\ instances = <<>>
    /\ componentRefs = {}
    /\ subscriptions = {}
    /\ streams = <<>>
    /\ loads = {}
    /\ errors = NoError
    /\ orchRet = OrchRet("init", NoInstanceId, TRUE, FALSE, FALSE, "none")
    /\ sharedObjects = {}

\* a loadWidgetComponent call waiting at its await: the instance it was given
\* and whether createWidget made the call
Load(id, create) == [id |-> id, create |-> create]

Loading(id) == \E l \in loads : l.id = id

\* the subscriptions made and those the loads in flight will make
PlannedStreams ==
    Len(streams) + Cardinality({l \in loads : instances[l.id].dataSource})

\* createWidget(type, config, container?) up to its return or, with a container,
\* up to the await of loadWidgetComponent
CreateWidgetWith(type, config, rnd, hasDataSource, hasContainer) ==
    IF getWidget(type) = NoDefinition \/ ~DepCheck(type).satisfied
    THEN /\ errors' = WidgetError(NoInstanceId, "CREATION_FAILED", FALSE)
         /\ orchRet' =
               [OrchRet("createWidget", NoInstanceId, FALSE, TRUE, FALSE, "none")
                  EXCEPT !.type = type,
                         !.message = IF getWidget(type) = NoDefinition
                                     THEN "Widget type not found"
                                     ELSE "Missing widget dependencies",
                         !.missing = IF getWidget(type) = NoDefinition THEN <<>>
                                     ELSE DepCheck(type).missing]
         /\ UNCHANGED <<instances, componentRefs, subscriptions, streams, loads>>
    ELSE LET id == generateInstanceId(type, rnd)
             stored == (id :> Instance(type, config, hasDataSource)) @@ instances
         IN \* the model creates no instance under an id whose load is in flight
            /\ ~Loading(id)
            /\ hasContainer /\ hasDataSource => PlannedStreams < MaxStreams
            /\ IF hasContainer
               THEN /\ instances' = updateInstanceState(stored, id, "loading")
                    /\ loads' = loads \cup {Load(id, TRUE)}
               ELSE /\ instances' = updateInstanceState(stored, id, "loaded")
                    /\ loads' = loads
            /\ orchRet' =
                  [OrchRet("createWidget", id, ~hasContainer, FALSE,
                           Live(instances, id), "none")
                     EXCEPT !.type = type,
                            !.phase = IF hasContainer THEN "await" ELSE "call",
                            !.edges = Edges(stored, id, IF hasContainer THEN "loading"
                                                        ELSE "loaded")]
            /\ UNCHANGED <<componentRefs, subscriptions, streams, errors>>

\* createWidget(type, {}, container?)
CreateWidget(type, rnd, hasDataSource, hasContainer) ==
    CreateWidgetWith(type, NoOverrides, rnd, hasDataSource, hasContainer)

\* loadWidgetComponent(instance, container) called for a live instance, up to
\* its await of loadComponent; the model runs one load per instance at a time
LoadWidgetComponent(id) ==
    /\ Live(instances, id)
    /\ ~Loading(id)
    /\ instances[id].dataSource => PlannedStreams < MaxStreams
    /\ instances' = updateInstanceState(instances, id, "loading")
    /\ loads' = loads \cup {Load(id, FALSE)}
    /\ orchRet' = [OrchRet("loadWidgetComponent", id, FALSE, FALSE, TRUE, "none")
                     EXCEPT !.phase = "await",
                            !.edges = Edges(instances, id, "loading")]
    /\ UNCHANGED <<componentRefs, subscriptions, streams, errors>>

\* the subscriptions that matter: one that is closed and that the map does
\* not hold can do nothing more
Held(strs) == SelectSeq(strs, LAMBDA st : st.active \/ st.inMap)

\* setupDataBinding(instance): provider.getData(dataSource).subscribe(...) and
\* this.subscriptions.set(instance.id, subscription), which drops the earlier
\* subscription of the id from the map and leaves it subscribed
Bind(strs, id) ==
    Append(Held([i \in 1..Len(strs) |->
                    IF strs[i].id = id THEN [strs[i] EXCEPT !.inMap = FALSE]
                    ELSE strs[i]]),
           [id |-> id, active |-> TRUE, inMap |-> TRUE])

\* the rest of loadWidgetComponent once loadComponent has settled, and of the
\* createWidget that awaits it: outcome "ok", or the rejection "loadFailed" of
\* loadComponent, or "noProvider" thrown by setupDataBinding
FinishLoad(l, outcome) ==
    LET id == l.id
        bind == instances[id].dataSource
        failed == IF outcome = "loadFailed" THEN "Failed to load component"
                  ELSE "No data provider found"
    IN /\ l \in loads
       /\ loads' = loads \ {l}
       /\ outcome = "noProvider" => bind
       /\ IF outcome = "ok"
          THEN /\ componentRefs' = componentRefs \cup {id}
               /\ streams' = IF bind THEN Bind(streams, id) ELSE streams
               /\ subscriptions' = IF bind THEN subscriptions \cup {id}
                                   ELSE subscriptions
               /\ instances' = updateInstanceState(instances, id, "loaded")
               /\ errors' = errors
               /\ orchRet' =
                     [OrchRet(IF l.create THEN "createWidget"
                              ELSE "loadWidgetComponent",
                              id, TRUE, FALSE, Live(instances, id), "none")
                        EXCEPT !.type = instances[id].type,
                               !.phase = "resume",
                               !.edges = Edges(instances, id, "loaded")]
          ELSE /\ componentRefs' = IF outcome = "noProvider"
                                   THEN componentRefs \cup {id} ELSE componentRefs
               /\ UNCHANGED <<subscriptions, streams>>
               /\ instances' = handleWidgetError(instances, id, "LOAD_FAILED")
               /\ errors' = IF l.create
                            THEN WidgetError(NoInstanceId, "CREATION_FAILED", FALSE)
                            ELSE WidgetError(id, "LOAD_FAILED", TRUE)
               /\ orchRet' =
                     [OrchRet(IF l.create THEN "createWidget"
                              ELSE "loadWidgetComponent",
                              id, FALSE, TRUE, Live(instances, id), "none")
                        EXCEPT !.type = instances[id].type,
                               !.phase = "resume",
                               !.message = failed,
                               !.edges = Edges(instances, id, "error")]

\* a destroyWidget that leaves out this.instances.delete(instanceId)
KeepInstance(insts, id) == [insts EXCEPT ![id].state = "destroyed"]

\* updateInstanceState(instanceId, DESTROYED); this.instances.delete(instanceId)
RemoveInstance(insts, id) ==
    [insts EXCEPT ![id].state = "destroyed", ![id].inTable = FALSE]

\* where destroyWidget's try block can throw for the id: in the component's
\* onDestroy hook or componentRef.destroy(), in subscription.unsubscribe()
ThrowPoints(id) ==
    {"none"} \cup (IF id \in componentRefs THEN {"component"} ELSE {})
             \cup (IF id \in subscriptions THEN {"unsubscribe"} ELSE {})

\* this.subscriptions.get(instanceId).unsubscribe() and
\* this.subscriptions.delete(instanceId)
Unbind(strs, id) ==
    Held([i \in 1..Len(strs) |->
             IF strs[i].id = id /\ strs[i].inMap
             THEN [strs[i] EXCEPT !.inMap = FALSE, !.active = FALSE]
             ELSE strs[i]])

\* a catch block of destroyWidget that reports the failure as recoverable
DestroyFailedRecoverable(id) == WidgetError(id, "DESTROY_FAILED", TRUE)

\* the error of destroyWidget's catch block
DestroyFailed(id) == WidgetError(id, "DESTROY_FAILED", FALSE)

\* destroyWidget(instanceId), the code it calls throwing at thrownAt
DestroyWidget(id, thrownAt) ==
    IF ~Live(instances, id)
    THEN /\ orchRet' = OrchRet("destroyWidget", id, FALSE, FALSE, FALSE, "none")
         /\ UNCHANGED <<instances, componentRefs, subscriptions, streams, loads,
                        errors>>
    ELSE /\ thrownAt \in ThrowPoints(id)
         /\ componentRefs' = IF thrownAt = "component"
                             THEN componentRefs ELSE componentRefs \ {id}
         /\ subscriptions' = IF thrownAt = "none"
                             THEN subscriptions \ {id} ELSE subscriptions
         /\ streams' = IF thrownAt = "none" THEN Unbind(streams, id) ELSE streams
         /\ instances' = IF thrownAt = "none"
                         THEN RemoveInstance(instances, id)
                         ELSE handleWidgetError(instances, id, "DESTROY_FAILED")
         /\ errors' = IF thrownAt = "none" THEN errors ELSE DestroyFailed(id)
         /\ orchRet' = [OrchRet("destroyWidget", id, thrownAt = "none", FALSE,
                                TRUE, thrownAt)
                          EXCEPT !.edges = Edges(instances, id,
                                                 IF thrownAt = "none" THEN "destroyed"
                                                 ELSE "error")]
         /\ UNCHANGED loads

\* an updateWidgetConfig / updateWidgetData that reports an id the map does
\* not hold on the error stream before it returns false
UpdateInstanceReporting(op, id, field, value, throws, code) ==
    IF ~Live(instances, id)
    THEN /\ orchRet' = OrchRet(op, id, FALSE, FALSE, FALSE, "none")
         /\ errors' = WidgetError(id, code, TRUE)
         /\ UNCHANGED instances
    ELSE LET written == [instances EXCEPT ![id][field] = value]
         IN /\ throws => id \in componentRefs
            /\ instances' = IF throws THEN handleWidgetError(written, id, code)
                            ELSE written
            /\ errors' = IF throws THEN WidgetError(id, code, TRUE) ELSE errors
            /\ orchRet' = [OrchRet(op, id, ~throws, FALSE, TRUE,
                                   IF throws THEN "component" ELSE "none")
                             EXCEPT !.edges = IF throws
                                              THEN Edges(instances, id, "error")
                                              ELSE <<>>]

\* updateWidgetConfig / updateWidgetData for the id: the field of the instance
\* takes the value, then the component's hook runs and throws or not (throws)
UpdateInstance(op, id, field, value, throws, code) ==
    IF ~Live(instances, id)
    THEN /\ orchRet' = OrchRet(op, id, FALSE, FALSE, FALSE, "none")
         /\ UNCHANGED <<instances, errors>>
    ELSE LET written == [instances EXCEPT ![id][field] = value]
         IN /\ throws => id \in componentRefs
            /\ instances' = IF throws THEN handleWidgetError(written, id, code)
                            ELSE written
            /\ errors' = IF throws THEN WidgetError(id, code, TRUE) ELSE errors
            /\ orchRet' = [OrchRet(op, id, ~throws, FALSE, TRUE,
                                   IF throws THEN "component" ELSE "none")
                             EXCEPT !.edges = IF throws
                                              THEN Edges(instances, id, "error")
                                              ELSE <<>>]

\* ---- bound of the model: the frames of updateWidgetConfig the call stack
\* has room for
StackDepth == 3

\* updateWidgetConfig on a mounted component that exposes onConfigChange, from
\* its frame-th frame on: loadWidgetComponent has replaced the hook by
\* (config) => this.updateWidgetConfig(instance.id, config), so the call of the
\* hook enters updateWidgetConfig again. The frame the stack has no room
\* under gets the RangeError of its call in its try block, reports it and
\* returns false; a frame whose hook returned goes on and returns true.
RECURSIVE ReboundFrames(_)
ReboundFrames(frame) ==
    IF frame >= StackDepth
    THEN [result |-> FALSE, entered |-> 1]
    ELSE [result |-> TRUE, entered |-> ReboundFrames(frame + 1).entered + 1]

\* updateWidgetConfig(instanceId, config) for a live instance whose mounted
\* component exposes onConfigChange
UpdateWidgetConfigRebound(id, config) ==
    /\ Live(instances, id)
    /\ id \in componentRefs
    /\ instances' = handleWidgetError(
                        [instances EXCEPT ![id].config = MergeConfig(@, config)],
                        id, "CONFIG_UPDATE_FAILED")
    /\ errors' = WidgetError(id, "CONFIG_UPDATE_FAILED", TRUE)
    /\ orchRet' = [OrchRet("updateWidgetConfig", id, ReboundFrames(1).result,
                           FALSE, TRUE, "stack")
                     EXCEPT !.edges = Edges(instances, id, "error"),
                            !.entered = ReboundFrames(1).entered]
    /\ UNCHANGED <<componentRefs, subscriptions, streams, loads>>

\* updateWidgetConfig(instanceId, config), the component without the hook
UpdateWidgetConfig(id, config, throws) ==
    /\ UpdateInstance("updateWidgetConfig", id, "config",
                      IF Live(instances, id)
                      THEN MergeConfig(instances[id].config, config)
                      ELSE config,
                      throws, "CONFIG_UPDATE_FAILED")
    /\ UNCHANGED <<componentRefs, subscriptions, streams, loads>>

\* updateWidgetData(instanceId, data)
UpdateWidgetData(id, data, throws) ==
    /\ UpdateInstance("updateWidgetData", id, "data", data, throws,
                      "DATA_UPDATE_FAILED")
    /\ UNCHANGED <<componentRefs, subscriptions, streams, loads>>

\* the provider's stream i emits data: next: (data) =>
\* this.updateWidgetData(instance.id, data)
DataNext(i, data, throws) ==
    /\ i \in 1..Len(streams)
    /\ streams[i].active
    /\ UpdateInstance("dataNext", streams[i].id, "data", data, throws,
                      "DATA_UPDATE_FAILED")
    /\ UNCHANGED <<componentRefs, subscriptions, streams, loads>>

\* the provider's stream i fails: error: (error) =>
\* this.handleWidgetError(instance.id, DATA_FETCH_FAILED); the stream is over
DataError(i) ==
    /\ i \in 1..Len(streams)
    /\ streams[i].active
    /\ streams' = Held([streams EXCEPT ![i].active = FALSE])
    /\ instances' = handleWidgetError(instances, streams[i].id, "DATA_FETCH_FAILED")
    /\ errors' = WidgetError(streams[i].id, "DATA_FETCH_FAILED", TRUE)
    /\ orchRet' = [OrchRet("dataError", streams[i].id, FALSE, FALSE,
                           Live(instances, streams[i].id), "none")
                     EXCEPT !.edges = Edges(instances, streams[i].id, "error")]
    /\ UNCHANGED <<componentRefs, subscriptions, loads>>

\* bubble: event.bubble ?? true
BubbleOf(bubble) == bubble # "false"

\* a bubbling delivery without the instanceId !== event.source test
BubblingCallsAll(refs, id, source, bubble) ==
    IF bubble /\ id \in refs THEN 1 ELSE 0

\* if (event.target) this.componentRefs.get(event.target)?.onEvent(event):
\* the onEvent calls the targeted delivery makes to the component of the id
TargetedCalls(refs, id, target) ==
    IF target # NoInstanceId /\ target = id /\ id \in refs THEN 1 ELSE 0

\* if (event.bubble) componentRefs.forEach(... instanceId !== event.source ...):
\* the onEvent calls the bubbling delivery makes to the component of the id
BubblingCalls(refs, id, source, bubble) ==
    IF bubble /\ id \in refs /\ id # source THEN 1 ELSE 0

\* emitEvent(sourceId, event) and the delivery of the eventBus subscriber
EmitEvent(source, target, bubble) ==
    /\ orchRet' =
          [OrchRet("emitEvent", source, TRUE, FALSE, Live(instances, source), "none")
             EXCEPT !.source = source, !.target = target,
                    !.bubble = BubbleOf(bubble),
                    !.invoked = [id \in componentRefs |->
                                    TargetedCalls(componentRefs, id, target)
                                    + BubblingCalls(componentRefs, id, source,
                                                    BubbleOf(bubble))]]
    /\ UNCHANGED <<instances, componentRefs, subscriptions, streams, loads, errors>>

(***************************************************************************)
(*                          Specifications                                 *)
(***************************************************************************)

\* ---- the event bus: subscribe*/unsubscribe, broadcast, send
InitBus == InitComm /\ LayoutStart("lg") /\ InitOrch /\ InitReg

NextBus ==
    \/ \E h \in Handlers, t \in UserTypes : Subscribe(h, t)
    \/ \E h \in Handlers, w \in Sources : SubscribeToWidget(h, w)
    \/ \E h \in Handlers, w \in WidgetIds : SubscribeToTargetedEvents(h, w)
    \/ \E h \in Handlers : Unsubscribe(h)
    \/ \E t \in UserTypes, w \in Sources, g \in WidgetIds \cup {Undef} :
          Broadcast(t, w, g)
    \/ \E g \in WidgetIds, t \in UserTypes, w \in Sources : Send(g, t, w)

SpecBus == InitBus /\ [][NextBus]_vars

\* ---- the shared state store
NextShared ==
    \/ \E k \in Keys, v \in Values : SetSharedState(k, v)
    \/ \E s \in StateSubIds, k \in Keys : SubscribeToSharedState(s, k)
    \/ \E s \in StateSubIds : UnsubscribeSharedState(s)
    \/ \E k \in Keys : RemoveSharedState(k)
    \/ ClearSharedState

SpecShared == InitBus /\ [][NextShared]_vars

\* ---- request / response
RespondIds ==
    {requests[r].requestId : r \in ReqSlots} \cup {ForeignId, NoId}

NextReq ==
    \/ \E r \in ReqSlots, g \in RequestTargets, t \in RequestTypes,
         k \in 1..MaxRnd, c \in {NoId, ForeignId} : Request(r, g, t, k, c)
    \/ \E t \in RequestTypes, i \in RespondIds, d \in ResponseData,
         e \in {Undef, "failed"} : Respond(t, "system", i, d, e)
    \/ \E r \in ReqSlots : TimeoutFire(r)
    \/ Tick

SpecReq == InitBus /\ [][NextReq]_vars

\* the event loop runs a timer that is due, and time passes
SpecReqLive ==
    /\ SpecReq
    /\ WF_vars(Tick)
    /\ \A r \in ReqSlots : WF_vars(TimeoutFire(r))

\* ---- the layout engine
InitLayout == \E m \in Viewports : LayoutStart(ActiveBreakpoint(m))

InitLayoutSpec == InitComm /\ InitLayout /\ InitOrch /\ InitReg

NextLayout ==
    \/ \E id \in LayoutIds, l \in DefaultLayouts : AddWidget(id, l) /\ OnlyLayout
    \/ \E id \in LayoutIds, l \in DefaultLayouts, p \in Positions :
          AddWidgetAt(id, l, p) /\ OnlyLayout
    \/ \E id \in LayoutIds : RemoveWidget(id) /\ OnlyLayout
    \/ \E id \in LayoutIds, l \in PartialLayouts :
          UpdateWidgetLayout(id, l) /\ OnlyLayout
    \/ CompactLayout /\ OnlyLayout
    \/ \E m \in Viewports : BreakpointChange(m) /\ OnlyLayout

SpecLayout == InitLayoutSpec /\ [][NextLayout]_vars

\* ---- compaction: three widgets (half the grid wide, wider than half, one
\* column and two rows) on the 12 columns of lg, added with and without a
\* position, the history cleared, the layout compacted
CompactIds == {"a", "b", "c"}
CompactLayouts == {Layout(6, 1, 0, 0), Layout(7, 1, 0, 0), Layout(1, 2, 0, 0)}
CompactPositions == {[x |-> 11, y |-> 1]}

NextCompact ==
    \/ \E id \in CompactIds, l \in CompactLayouts : AddWidget(id, l) /\ OnlyLayout
    \/ \E id \in CompactIds, l \in CompactLayouts, p \in CompactPositions :
          AddWidgetAt(id, l, p) /\ OnlyLayout
    \/ ClearLayoutHistory /\ OnlyLayout
    \/ CompactLayout /\ OnlyLayout

SpecCompact == InitBus /\ [][NextCompact]_vars

\* ---- responsive layout: widgets added with and without a position, the
\* responsive flag switched, the viewport changed over every breakpoint
ResponsiveViewports ==
    Viewports \cup {{"md", "lg"}, {"lg", "xl"}, {"xl"}, {"xs", "xl"}}

InitResponsive ==
    /\ InitComm
    /\ \E m \in ResponsiveViewports : LayoutStart(ActiveBreakpoint(m))
    /\ InitOrch
    /\ InitReg

NextResponsive ==
    \/ \E id \in LayoutIds, l \in DefaultLayouts : AddWidget(id, l) /\ OnlyLayout
    \/ \E id \in LayoutIds, l \in DefaultLayouts, p \in Positions :
          AddWidgetAt(id, l, p) /\ OnlyLayout
    \/ \E r \in BOOLEAN : UpdateGridConfig("responsive", r) /\ OnlyLayout
    \/ \E m \in ResponsiveViewports : BreakpointChange(m) /\ OnlyLayout
    \/ OptimizeLayoutForBreakpoint /\ OnlyLayout

SpecResponsive == InitResponsive /\ [][NextResponsive]_vars

\* ---- layout updates: two widgets added without a position, the history
\* cleared, then moved and resized, onto each other too
UpdatePartials == {[x |-> 1], [y |-> 0], [cols |-> 2], [x |-> 0, y |-> 0]}

NextUpdate ==
    \/ \E id \in LayoutIds, l \in DefaultLayouts : AddWidget(id, l) /\ OnlyLayout
    \/ ClearLayoutHistory /\ OnlyLayout
    \/ \E id \in LayoutIds, l \in UpdatePartials :
          UpdateWidgetLayout(id, l) /\ OnlyLayout

SpecUpdate == InitLayoutSpec /\ [][NextUpdate]_vars

\* ---- the change history at its cap: the operations that record a change, on
\* a service whose history is full
InitHistory == InitComm /\ LayoutWithFullHistory /\ InitOrch /\ InitReg

NextHistory ==
    \/ \E id \in LayoutIds, l \in DefaultLayouts : AddWidget(id, l) /\ OnlyLayout
    \/ \E id \in LayoutIds, l \in DefaultLayouts, p \in Positions :
          AddWidgetAt(id, l, p) /\ OnlyLayout
    \/ \E id \in LayoutIds : RemoveWidget(id) /\ OnlyLayout
    \/ \E id \in LayoutIds, l \in PartialLayouts :
          UpdateWidgetLayout(id, l) /\ OnlyLayout

SpecHistory == InitHistory /\ [][NextHistory]_vars

\* ---- the dashboard document: widgets added and removed, the title
\* changed, the dashboard exported and imported
NextDashboard ==
    \/ \E id \in LayoutIds, l \in DefaultLayouts : AddWidget(id, l) /\ OnlyLayout
    \/ \E id \in LayoutIds : RemoveWidget(id) /\ OnlyLayout
    \/ \E t \in Titles : UpdateDashboardConfig(t) /\ OnlyLayout
    \/ ImportDashboard(exportDashboard, "exportDashboard") /\ OnlyLayout
    \/ \E doc \in Documents : ImportDashboard(doc, "document") /\ OnlyLayout

SpecDashboard == InitLayoutSpec /\ [][NextDashboard]_vars

\* the ids the callers of the orchestrator use: those of the instances made
\* and one that was never made
OrchIds == DOMAIN instances \cup {generateInstanceId("todo", "r1")}

\* ---- the orchestrator
NextOrch ==
    \/ \E t \in WidgetTypes, r \in InstanceRnds, d \in BOOLEAN, c \in BOOLEAN :
          CreateWidget(t, r, d, c) /\ OnlyOrch
    \/ \E l \in loads, o \in {"ok", "loadFailed", "noProvider"} :
          FinishLoad(l, o) /\ OnlyOrch
    \/ \E id \in OrchIds, p \in {"none", "component", "unsubscribe"} :
          DestroyWidget(id, p) /\ OnlyOrch

\* the orchestrator starts on the registry the startup registrations leave
InitOrchSpec ==
    /\ InitComm
    /\ LayoutStart("lg")
    /\ InitOrch
    /\ RegistryIs(registerMany(EmptyRegistry, StartupDefinitions).st)
    /\ regRet = [RegRet("registerMany", Undef, TRUE, FALSE, "ok")
                   EXCEPT !.defs = StartupDefinitions]

SpecOrch == InitOrchSpec /\ [][NextOrch]_vars

\* ---- one instance id through every operation of the orchestrator: its
\* creation (again under the same id when Date.now() and Math.random() repeat),
\* loads and re-loads, updates, provider emissions, events and destruction
NextInstance ==
    \/ \E t \in WidgetTypes, d \in BOOLEAN, c \in BOOLEAN :
          CreateWidget(t, "r1", d, c) /\ OnlyOrch
    \/ \E id \in DOMAIN instances : LoadWidgetComponent(id) /\ OnlyOrch
    \/ \E l \in loads, o \in {"ok", "loadFailed", "noProvider"} :
          FinishLoad(l, o) /\ OnlyOrch
    \/ \E id \in OrchIds, p \in {"none", "component", "unsubscribe"} :
          DestroyWidget(id, p) /\ OnlyOrch
    \/ \E id \in OrchIds, c \in ConfigValues, t \in BOOLEAN :
          UpdateWidgetConfig(id, c, t) /\ OnlyOrch
    \/ \E id \in OrchIds, c \in ConfigValues :
          UpdateWidgetConfigRebound(id, c) /\ OnlyOrch
    \/ \E id \in OrchIds, d \in DataValues, t \in BOOLEAN :
          UpdateWidgetData(id, d, t) /\ OnlyOrch
    \/ \E i \in 1..MaxStreams, d \in DataValues, t \in BOOLEAN :
          DataNext(i, d, t) /\ OnlyOrch
    \/ \E i \in 1..MaxStreams : DataError(i) /\ OnlyOrch
    \/ \E source \in OrchIds, target \in OrchIds \cup {NoInstanceId},
         bubble \in {"true", "false", Undef} :
          EmitEvent(source, target, bubble) /\ OnlyOrch

SpecInstance == InitOrchSpec /\ [][NextInstance]_vars

\* ---- the type of the configs: the overrides of createWidget and the partial
\* configs of updateWidgetConfig, with and without a type of their own
ConfigOverrides ==
    {NoOverrides, [type |-> "needy"], [title |-> "c1", type |-> "needy"]}

TypedPartials == {[title |-> "c1"], [type |-> "needy"], [type |-> "todo"]}

NextType ==
    \/ \E t \in WidgetTypes, o \in ConfigOverrides, c \in BOOLEAN :
          CreateWidgetWith(t, o, "r1", FALSE, c) /\ OnlyOrch
    \/ \E l \in loads, o \in {"ok", "loadFailed"} : FinishLoad(l, o) /\ OnlyOrch
    \/ \E id \in OrchIds : DestroyWidget(id, "none") /\ OnlyOrch
    \/ \E id \in OrchIds, c \in TypedPartials, t \in BOOLEAN :
          UpdateWidgetConfig(id, c, t) /\ OnlyOrch
    \/ \E id \in OrchIds, c \in TypedPartials :
          UpdateWidgetConfigRebound(id, c) /\ OnlyOrch

SpecType == InitOrchSpec /\ [][NextType]_vars

\* ---- the dashboard page: instances made by createWidget and handed to
\* addWidget, then laid out by the layout engine and configured through the
\* orchestrator

\* the key of an instance in dashboardConfig.widgets: its id (the ids of the
\* page differ by their random part only)
KeyOf(id) == id.rnd

\* layoutManager.addWidget(orchestrator.getWidget(id)): the instance object
\* itself gets the position and is pushed onto the list
AddInstance(id) ==
    /\ Live(instances, id)
    /\ AddWidget(KeyOf(id), instances[id].config.layout)
    /\ sharedObjects' = sharedObjects \cup {KeyOf(id)}
    /\ instances' = [instances EXCEPT
                       ![id].config.layout = widgets'[Len(widgets')].layout]
    /\ UNCHANGED <<componentRefs, subscriptions, streams, loads, errors, orchRet>>
    /\ UNCHANGED <<commVars, regVars>>

\* updateWidgetLayout(id, partial): widget.config.layout = ... on the entry of
\* the list, which is the instance when the object is shared
UpdateInstanceLayout(id, partial) ==
    /\ UpdateWidgetLayout(KeyOf(id), partial)
    /\ instances' =
          [k \in DOMAIN instances |->
              LET i == WidgetIndex(widgets', KeyOf(k))
              IN IF i # 0 /\ KeyOf(k) \in sharedObjects
                 THEN [instances[k] EXCEPT !.config.layout = widgets'[i].layout]
                 ELSE instances[k]]
    /\ UNCHANGED <<componentRefs, subscriptions, streams, loads, errors, orchRet>>
    /\ UNCHANGED <<commVars, regVars, sharedObjects>>

\* compactLayout(): the list is replaced by one of copies,
\* { ...widget, config: { ...widget.config, layout } }
CompactPage ==
    /\ CompactLayout
    /\ sharedObjects' = {}
    /\ UNCHANGED <<commVars, orchVars, regVars>>

\* optimizeLayoutForBreakpoint(): the list is replaced by one of copies
OptimizePage ==
    /\ OptimizeLayoutForBreakpoint
    /\ sharedObjects' = {}
    /\ UNCHANGED <<commVars, orchVars, regVars>>

\* updateWidgetConfig(id, config): instance.config = { ...instance.config,
\* ...config } on the instance object, which is the entry of the list when the
\* object is shared
UpdateInstanceConfig(id, config) ==
    /\ UpdateWidgetConfig(id, config, FALSE)
    /\ widgets' =
          LET i == WidgetIndex(widgets, KeyOf(id))
          IN IF i # 0 /\ KeyOf(id) \in sharedObjects
             THEN [widgets EXCEPT ![i].layout = instances'[id].config.layout]
             ELSE widgets
    /\ UNCHANGED <<dashboard, grid, layoutChanges, breakpoint, layoutRet>>
    /\ UNCHANGED <<commVars, regVars, sharedObjects>>

\* the layouts createWidget is given, the partial layouts and partial configs
PageLayouts == {Layout(1, 1, 0, 0)}
PagePartials == {[y |-> 1], [x |-> 1]}
PageConfigs == {[title |-> "c1"], [layout |-> [Layout(1, 1, 0, 0) EXCEPT !.y = 2]]}

\* createWidget('todo', { layout }) makes its instance under an id the map
\* does not hold yet
NextPage ==
    \/ \E r \in InstanceRnds, l \in PageLayouts :
          /\ generateInstanceId("todo", r) \notin DOMAIN instances
          /\ CreateWidgetWith("todo", [layout |-> l], r, FALSE, FALSE)
          /\ OnlyOrch
    \/ \E id \in DOMAIN instances : AddInstance(id)
    \/ \E id \in DOMAIN instances, l \in PagePartials : UpdateInstanceLayout(id, l)
    \/ CompactPage
    \/ OptimizePage
    \/ \E id \in DOMAIN instances, c \in PageConfigs : UpdateInstanceConfig(id, c)

SpecPage == InitOrchSpec /\ [][NextPage]_vars

\* ---- event delivery: widgets mounted and destroyed, events emitted by and
\* to every id
EventIds == {generateInstanceId("todo", rnd) : rnd \in InstanceRnds}

NextEvents ==
    \/ \E r \in InstanceRnds : CreateWidget("todo", r, FALSE, TRUE) /\ OnlyOrch
    \/ \E l \in loads : FinishLoad(l, "ok") /\ OnlyOrch
    \/ \E id \in EventIds : DestroyWidget(id, "none") /\ OnlyOrch
    \/ \E source \in EventIds, target \in EventIds \cup {NoInstanceId},
         bubble \in {"true", "false", Undef} :
          EmitEvent(source, target, bubble) /\ OnlyOrch

SpecEvents == InitOrchSpec /\ [][NextEvents]_vars

\* ---- the registry: register, registerMany, unregister
NextRegistry ==
    \/ \E definition \in Definitions : Register(definition) /\ OnlyReg
    \/ \E defs \in DefinitionLists : RegisterMany(defs) /\ OnlyReg
    \/ \E type \in {"todo", "needy", "lazy", "absent"} : Unregister(type) /\ OnlyReg
    \/ \E defs \in DefinitionLists : Import(defs) /\ OnlyReg
    \/ Import(Export.widgets) /\ OnlyReg

SpecRegistry == InitBus /\ [][NextRegistry]_vars

(***************************************************************************)
(*                             Properties                                  *)
(***************************************************************************)

\* ---- WidgetOrchestratorService.destroyWidget

\* C1 as stated: for any id that is live, destroyWidget(id) returns true and
\* removes the instance from getAllWidgets(); a destroyWidget(id) of an id that
\* is not live returns false and changes nothing; no call raises.
C1_FirstDestroyReturnsTrue ==
    [][orchRet'.op = "destroyWidget" =>
          /\ ~orchRet'.raised
          /\ Live(instances, orchRet'.id) =>
                orchRet'.result /\ ~Live(instances', orchRet'.id)
          /\ ~Live(instances, orchRet'.id) =>
                /\ ~orchRet'.result
                /\ UNCHANGED <<instances, componentRefs, subscriptions, loads, errors>>
      ]_vars

\* C1 amended: destroyWidget(id) never raises.  For an id that is live, it
\* returns true and removes the instance, its component reference and its data
\* subscription when no disposal step throws; when the component's onDestroy
\* hook, componentRef.destroy() or subscription.unsubscribe() throws it returns
\* false, the instance stays in getAllWidgets() in state error and a
\* DESTROY_FAILED error is emitted for it.  For an id that is not live (never
\* created, or destroyed by an earlier call) it returns false and changes
\* nothing.
C1_DestroyIdempotent ==
    [][orchRet'.op = "destroyWidget" =>
          /\ ~orchRet'.raised
          /\ Live(instances, orchRet'.id) /\ orchRet'.thrownAt = "none" =>
                /\ orchRet'.result
                /\ ~Live(instances', orchRet'.id)
                /\ orchRet'.id \notin componentRefs'
                /\ orchRet'.id \notin subscriptions'
          /\ Live(instances, orchRet'.id) /\ orchRet'.thrownAt # "none" =>
                /\ ~orchRet'.result
                /\ Live(instances', orchRet'.id)
                /\ instances'[orchRet'.id].state = "error"
                /\ errors' = WidgetError(orchRet'.id, "DESTROY_FAILED", FALSE)
          /\ ~Live(instances, orchRet'.id) =>
                /\ ~orchRet'.result
                /\ UNCHANGED <<instances, componentRefs, subscriptions, loads, errors>>
      ]_vars

\* a destroyWidget(id) has just returned false for an id that an earlier
\* destroyWidget(id) removed
C1_RepeatedDestroy ==
    /\ orchRet.op = "destroyWidget"
    /\ ~orchRet.result
    /\ ~orchRet.wasLive
    /\ orchRet.id \in DOMAIN instances
    /\ instances[orchRet.id].state = "destroyed"

\* ---- DashboardLayoutManagerService

\* C2: after a successful addWidget (with or without a position),
\* updateWidgetLayout or compactLayout, no two widgets of the dashboard have
\* rectangles that overlap on both axes.
C2_CollisionFree ==
    layoutRet.op \in {"addWidget", "updateWidgetLayout", "compactLayout"}
        /\ layoutRet.result =>
    \A i, j \in 1..Len(widgets) :
        i < j => ~Collide(widgets[i].layout, widgets[j].layout)

\* C3: in every reachable state every widget of the dashboard has 0 <= x and
\* x + cols <= grid.cols.
C3_WithinGrid ==
    \A i \in 1..Len(widgets) :
        /\ 0 <= widgets[i].layout.x
        /\ widgets[i].layout.x + widgets[i].layout.cols <= grid.cols

\* C4: an updateWidgetLayout that returns false (unknown id, validateLayout
\* violation, collision that resolveOverlaps cannot resolve) leaves the layout of
\* every widget and the layout-change history as they were before the call.
C4_UpdateAllOrNothing ==
    [][layoutRet'.op = "updateWidgetLayout" /\ ~layoutRet'.result =>
          /\ widgets' = widgets
          /\ layoutChanges' = layoutChanges
          /\ grid' = grid
      ]_vars

\* an updateWidgetLayout has just returned false because the collision of its
\* new layout could not be resolved, with two widgets on the dashboard
C4_RejectedOverlap ==
    /\ layoutRet.op = "updateWidgetLayout"
    /\ ~layoutRet.result
    /\ layoutRet.why = "overlap"
    /\ Len(widgets) = 2

\* ---- WidgetCommunicationService: the event bus

C7_SeesEveryWrite ==
    \A s \in StateSubIds :
        stateSubs[s].status \in {"active", "completed"} =>
            Tail(stateSubs[s].seen) = stateSubs[s].written

\* C7 amended: a subscriber that has not unsubscribed has observed, after its
\* first value, every value written to its key with setSharedState, in write
\* order, up to the first removeSharedState(key) or clearSharedState() since it
\* subscribed; that call completes its stream, and it observes none of the
\* values written to the key afterwards.
C7_SeesWritesUntilRemoved ==
    \A s \in StateSubIds :
        stateSubs[s].status \in {"active", "completed"} =>
            Tail(stateSubs[s].seen) =
                IF stateSubs[s].cut = -1
                THEN stateSubs[s].written
                ELSE SubSeq(stateSubs[s].written, 1, stateSubs[s].cut)

\* a subscriber observed a write, its key was then removed or cleared, and a
\* later write to the key did not reach it
C7_WriteAfterRemove ==
    \E s \in StateSubIds :
        /\ stateSubs[s].status = "completed"
        /\ stateSubs[s].cut = 1
        /\ Len(stateSubs[s].written) = 2
        /\ Len(stateSubs[s].seen) = 2

\* ---- WidgetCommunicationService: request / response

C9_SettlesOnce ==
    \A r \in ReqSlots :
        /\ requests[r].calls <= 1
        /\ requests[r].status = "pending" =>
              requests[r].calls = 0 /\ requests[r].subscribed /\ requests[r].timerActive
        /\ requests[r].status \in {"resolved", "rejected_error", "rejected_timeout"} =>
              requests[r].calls = 1 /\ ~requests[r].subscribed /\ ~requests[r].timerActive

\* a request was settled by a response and the time of its timeout has come
C9_ResolvedPastDeadline ==
    \E r \in ReqSlots :
        /\ requests[r].status \in {"resolved", "rejected_error"}
        /\ now >= requests[r].deadline

\* the last time the clock of the model reaches
LastNow == (MaxNow \div TickMs) * TickMs

\* C10: a request for which no matching response has been sent is pending
\* while fewer than timeoutMs (5000) ms have passed since it was made, is
\* rejected with a timeout no earlier than that, and once that time has come it
\* is rejected with a timeout (or a matching response is sent).
C10_TimeoutNotBefore ==
    /\ [](\A r \in ReqSlots :
            /\ requests[r].status = "rejected_timeout" =>
                  requests[r].settledAt >= requests[r].requestId.ts + timeoutMs
            /\ requests[r].status # "free" /\ ~requests[r].matchSent =>
                  /\ requests[r].status \in {"pending", "rejected_timeout"}
                  /\ now < requests[r].requestId.ts + timeoutMs =>
                        requests[r].status = "pending")
    /\ \A r \in ReqSlots :
          (requests[r].status = "pending"
              /\ requests[r].requestId.ts + timeoutMs <= LastNow)
            ~> (requests[r].status = "rejected_timeout" \/ requests[r].matchSent)

\* a request no matching response was sent for has been rejected with a timeout
C10_TimedOut ==
    \E r \in ReqSlots :
        /\ requests[r].status = "rejected_timeout"
        /\ ~requests[r].matchSent
        /\ requests[r].settledAt >= timeoutMs


\* C18: registerMany(defs) is fail-fast: when it raises at defs[k], the
\* definitions before k are registered in order, as register would have left
\* them, and neither defs[k] nor any later definition is registered by the call
FirstInvalid(defs) ==
    CHOOSE k \in 1..Len(defs) :
        /\ validateDefinition(defs[k]) # "ok"
        /\ \A j \in 1..(k - 1) : validateDefinition(defs[j]) = "ok"

RECURSIVE RegisterEach(_, _, _)
RegisterEach(st, defs, n) ==
    IF n = 0 THEN st
    ELSE registerUnchecked(RegisterEach(st, defs, n - 1), defs[n])

C18_RegisterManyFailFast ==
    [][regRet'.op = "registerMany" =>
        LET defs == regRet'.defs
            anyInvalid == \E k \in 1..Len(defs) : validateDefinition(defs[k]) # "ok"
        IN /\ regRet'.raised <=> anyInvalid
           /\ Registry' = RegisterEach(Registry, defs,
                                       IF anyInvalid THEN FirstInvalid(defs) - 1
                                       ELSE Len(defs))]_vars

\* a call that raised at its second definition: the first one is registered
C18_RaisedAtSecond ==
    /\ regRet.op = "registerMany"
    /\ regRet.raised
    /\ Len(regRet.defs) = 2
    /\ validateDefinition(regRet.defs[1]) = "ok"
    /\ hasWidget(regWidgets, regRet.defs[1].type)

\* C19: a register whose definition misses type, name, category,
\* defaultConfig, or both a component and a usable lazy loader, raises and
\* leaves catalog, category index and stream value as they were
MissingRequired(d) ==
    \/ d.type = Undef
    \/ d.name = Undef
    \/ d.category = Undef
    \/ ~d.defaultConfig
    \/ ~d.component /\ ~(d.lazy /\ d.loadComponent)

C19_InvalidRegisterChangesNothing ==
    [][regRet'.op = "register" /\ MissingRequired(regRet'.defs[1]) =>
        /\ regRet'.raised
        /\ UNCHANGED <<regWidgets, categories, widgetSubject>>]_vars

\* an invalid register on a registry that holds definitions
C19_RejectedOnFilledRegistry ==
    /\ regRet.op = "register"
    /\ regRet.raised
    /\ regWidgets # <<>>

\* C20: after unregister(type) returns true getWidget(type) is undefined and
\* no category lists a definition of that type; an unregister of an absent
\* type returns false and changes nothing
ListedInCategory(cats, type) ==
    \E c \in 1..Len(cats) :
        \E i \in 1..Len(cats[c].widgets) : cats[c].widgets[i].type = type

C20_UnregisterRemovesEverywhere ==
    [][regRet'.op = "unregister" =>
        IF regRet'.result
        THEN /\ getWidgetIn(regWidgets', regRet'.type) = NoDefinition
             /\ ~ListedInCategory(categories', regRet'.type)
        ELSE /\ ~hasWidget(regWidgets, regRet'.type)
             /\ UNCHANGED <<regWidgets, categories, widgetSubject>>]_vars


\* ---- WidgetOrchestratorService.createWidget

\* C11: a createWidget for a registered type whose definition declares a
\* dependency that is not registered fails with an error that names the
\* missing dependencies, and getAllWidgets() is what it was before the call
UnregisteredDependencies(type) ==
    {getWidget(type).dependencies[i] : i \in
        {j \in 1..Len(getWidget(type).dependencies) :
            ~hasWidget(regWidgets, getWidget(type).dependencies[j])}}

C11_MissingDependencyFails ==
    [][orchRet'.op = "createWidget"
         /\ hasWidget(regWidgets, orchRet'.type)
         /\ UnregisteredDependencies(orchRet'.type) # {} =>
            /\ orchRet'.raised
            /\ orchRet'.message = "Missing widget dependencies"
            /\ {orchRet'.missing[i] : i \in 1..Len(orchRet'.missing)}
                  = UnregisteredDependencies(orchRet'.type)
            /\ getAllWidgets' = getAllWidgets
            /\ instances' = instances]_vars

\* a createWidget('needy') has failed while other instances are live
C11_FailedBesideLive ==
    /\ orchRet.op = "createWidget"
    /\ orchRet.type = "needy"
    /\ orchRet.raised
    /\ getAllWidgets # {}


\* C12: whenever createWidget fails (re-raises and publishes CREATION_FAILED),
\* whatever the cause, the instance table holds no instance created by the call
C12_FailedCreateLeavesNoInstance ==
    [][orchRet'.op = "createWidget" /\ orchRet'.raised =>
          /\ errors' = WidgetError(NoInstanceId, "CREATION_FAILED", FALSE)
          /\ ~Live(instances', orchRet'.id)]_vars

\* C13: the instance ids createWidget generates are pairwise distinct, so the
\* instances.set of a createWidget never replaces the entry of a live instance
C13_NoOverwrite ==
    [][orchRet'.op = "createWidget" /\ orchRet'.phase # "resume"
         /\ ~orchRet'.raised =>
          ~Live(instances, orchRet'.id)]_vars


\* ---- WidgetOrchestratorService: data binding, events, instance states

\* the subscriptions of the id that are still subscribed
ActiveStreams(strs, id) ==
    {i \in 1..Len(strs) : strs[i].id = id /\ strs[i].active}

\* C14: at any time each live instance has at most one active data-provider
\* subscription: when loadWidgetComponent has run again for a bound instance
\* the earlier subscription is unsubscribed and one subscription is active
C14_OneActiveSubscription ==
    [][orchRet'.op = "loadWidgetComponent" /\ orchRet'.phase = "resume"
         /\ Live(instances', orchRet'.id) =>
          Cardinality(ActiveStreams(streams', orchRet'.id)) <= 1]_vars


\* C15: when destroyWidget(id) returns true for a mounted, data-bound widget,
\* on return no data-stream subscription of the widget is still subscribed and
\* its component is out of the set that events are delivered to
C15_DestroyReleasesStreamAndComponent ==
    [][orchRet'.op = "destroyWidget" /\ orchRet'.result
         /\ orchRet'.id \in componentRefs /\ orchRet'.id \in subscriptions =>
          /\ ActiveStreams(streams', orchRet'.id) = {}
          /\ orchRet'.id \notin componentRefs']_vars


\* the state changes of one step are those the operation recorded: the state
\* of a live instance changes only by the edges of the call made for its id,
\* and the object of a destroyed instance is never written again (the entry
\* of an id changes otherwise only when createWidget stores a new instance
\* under it)
StoresNewInstance(ret, id) ==
    ret.op = "createWidget" /\ ret.phase # "resume" /\ ~ret.raised /\ ret.id = id

StateChangesRecorded ==
    \A id \in DOMAIN instances :
        \/ StoresNewInstance(orchRet', id)
        \/ IF instances[id].inTable
           THEN instances'[id].state # instances[id].state =>
                   /\ orchRet'.id = id
                   /\ orchRet'.edges # <<>>
                   /\ orchRet'.edges[1][1] = instances[id].state
                   /\ orchRet'.edges[Len(orchRet'.edges)][2] = instances'[id].state
           ELSE instances'[id] = instances[id]

EdgesWithin(allowed) ==
    \A k \in 1..Len(orchRet'.edges) : orchRet'.edges[k] \in allowed

\* the edges of the claim: INITIALIZING -> LOADING, LOADING -> LOADED, any
\* state -> ERROR, LOADED -> DESTROYED, ERROR -> DESTROYED
ClaimedEdges ==
    {<<"initializing", "loading">>, <<"loading", "loaded">>,
     <<"loaded", "destroyed">>, <<"error", "destroyed">>}
    \cup {<<st, "error">> : st \in {"initializing", "loading", "loaded"}}

\* the edges the operations take besides
FurtherEdges ==
    {<<"initializing", "loaded">>, <<"loaded", "loading">>,
     <<"error", "loading">>, <<"error", "loaded">>, <<"loading", "destroyed">>}

\* C16 as stated: the state of each instance changes only along the claimed
\* edges and DESTROYED is terminal
C16_ClaimedEdgesOnly ==
    [][StateChangesRecorded /\ EdgesWithin(ClaimedEdges)]_vars

\* C16 amended: the state of each instance changes only along the claimed
\* edges and INITIALIZING -> LOADED, LOADED -> LOADING, ERROR -> LOADING,
\* ERROR -> LOADED, LOADING -> DESTROYED; DESTROYED is terminal
C16_StateEdges ==
    [][/\ StateChangesRecorded
       /\ EdgesWithin((ClaimedEdges \ {<<"initializing", "error">>})
                      \cup FurtherEdges)]_vars


\* a re-load has taken an instance from ERROR back to LOADING
C16_ReloadedFromError ==
    /\ orchRet.op = "loadWidgetComponent"
    /\ orchRet.edges = << <<"error", "loading">> >>

\* C17 as stated: for an emitEvent(sourceId, event) the onEvent hook of the
\* component mounted for sourceId is not invoked, whatever target and bubble
\* are, and a bubbling event reaches every other mounted component
C17_SourceNeverInvoked ==
    [][orchRet'.op = "emitEvent" =>
          /\ orchRet'.source \in componentRefs =>
                orchRet'.invoked[orchRet'.source] = 0
          /\ orchRet'.bubble =>
                \A id \in componentRefs \ {orchRet'.source} :
                    orchRet'.invoked[id] >= 1]_vars

\* C17 amended: the bubbling delivery calls onEvent once on every mounted
\* component but the source's; the targeted delivery calls onEvent once on the
\* component mounted for the target, the source's own included; no other call
\* is made
C17_EventDelivery ==
    [][orchRet'.op = "emitEvent" =>
          /\ DOMAIN orchRet'.invoked = componentRefs
          /\ \A id \in componentRefs :
                orchRet'.invoked[id] =
                    (IF orchRet'.target = id THEN 1 ELSE 0)
                    + (IF orchRet'.bubble /\ id # orchRet'.source THEN 1 ELSE 0)
      ]_vars

\* a mounted component has emitted a bubbling event that targets itself, with
\* another component mounted
C17_SelfTargetedBubbling ==
    /\ orchRet.op = "emitEvent"
    /\ orchRet.source \in componentRefs
    /\ orchRet.target = orchRet.source
    /\ orchRet.bubble
    /\ Cardinality(componentRefs) = 2


\* ---- WidgetRegistryService.import / export

\* the last definition of the type in defs, NoDefinition for none
LastOfType(defs, type) ==
    IF \E i \in 1..Len(defs) : defs[i].type = type
    THEN defs[CHOOSE i \in 1..Len(defs) :
                 defs[i].type = type
                 /\ \A j \in (i + 1)..Len(defs) : defs[j].type # type]
    ELSE NoDefinition

\* C21: after import(data) with valid definitions the catalog holds exactly
\* the definitions of data.widgets, the last one per type, and nothing that
\* was registered before; import(export()) leaves getAllWidgets() and
\* getCategories() as they were
C21_ImportReplaces ==
    [][regRet'.op = "import"
         /\ (\A i \in 1..Len(regRet'.defs) :
                validateDefinition(regRet'.defs[i]) = "ok") =>
          /\ \A type \in {"todo", "needy", "lazy"} :
                getWidgetIn(regWidgets', type) = LastOfType(regRet'.defs, type)
          /\ regRet'.defs = Export.widgets =>
                /\ regWidgets' = regWidgets
                /\ getCategories' = getCategories]_vars


\* ---- DashboardLayoutManagerService.exportDashboard / importDashboard

\* C22: importDashboard(exportDashboard()) returns true and leaves a dashboard
\* config equal field by field, every widget's id, layout and timestamps
\* included, to the one before the export
C22_ExportImportRoundTrip ==
    [][layoutRet'.op = "importDashboard" /\ layoutRet'.why = "exportDashboard" =>
          /\ layoutRet'.result
          /\ UNCHANGED <<dashboard, grid, widgets>>]_vars

\* C23: an importDashboard whose input does not parse, or lacks id, title or
\* grid, or whose widgets is not an array, returns false and leaves the
\* dashboard config as it was
LacksRequired(doc) ==
    \/ ~doc.parses
    \/ doc.id = Undef \/ doc.title = Undef \/ doc.grid = NoGrid
    \/ ~doc.widgetsIsArray
C23_ImportFailsClosed ==
    [][\A doc \in Documents :
          LacksRequired(doc) /\ ImportDashboard(doc, "document") =>
              /\ ~layoutRet'.result
              /\ UNCHANGED <<dashboard, grid, widgets>>]_vars
\* a document was refused by a dashboard that holds a widget and a new title
C23_RefusedOnFilledDashboard ==
    /\ layoutRet.op = "importDashboard" /\ layoutRet.why = "document"
    /\ ~layoutRet.result
    /\ Len(widgets) > 0 /\ dashboard.title = "Sales"


\* ---- DashboardLayoutManagerService.compactLayout

\* the (x, y) of the widget id among the widgets ws
PositionOf(ws, id) ==
    LET l == ws[WidgetIndex(ws, id)].layout IN [x |-> l.x, y |-> l.y]

\* C24: a compactLayout that follows a compactLayout with no other operation
\* in between leaves every widget's (x, y) unchanged
C24_CompactionStable ==
    [][layoutRet.op = "compactLayout" /\ layoutRet'.op = "compactLayout" =>
          \A i \in 1..Len(widgets) :
              PositionOf(widgets', widgets[i].id) = PositionOf(widgets, widgets[i].id)
      ]_vars

\* C25: compactLayout preserves the visual order: a widget that comes before
\* another in ascending (y, x) order before the call comes before it after
C25_CompactionKeepsOrder ==
    [][layoutRet'.op = "compactLayout" =>
          \A i, j \in 1..Len(widgets) :
              SortsBefore(widgets[i], widgets[j]) =>
                  LET a == PositionOf(widgets', widgets[i].id)
                      b == PositionOf(widgets', widgets[j].id)
                  IN SortsBefore([layout |-> a], [layout |-> b])
      ]_vars


\* ---- DashboardLayoutManagerService: the change history

\* the ids of the widgets ws
IdsOf(ws) == {ws[i].id : i \in 1..Len(ws)}

\* the widgets a step affects: added, removed, or with another layout
Affected(before, after) ==
    {id \in IdsOf(before) \cup IdsOf(after) :
        \/ id \notin IdsOf(before)
        \/ id \notin IdsOf(after)
        \/ before[WidgetIndex(before, id)].layout # after[WidgetIndex(after, id)].layout}

\* C26: every layout operation that changes a widget's layout or the widget
\* list (addWidget, removeWidget, successful updateWidgetLayout, compactLayout,
\* optimizeLayoutForBreakpoint on a change of breakpoint) appends a LayoutChange
\* record for each affected widget to the history
C26_EveryChangeRecorded ==
    [][layoutRet'.op \in {"addWidget", "removeWidget", "updateWidgetLayout",
                          "compactLayout", "breakpoint"} /\ layoutRet'.result =>
          \A id \in Affected(widgets, widgets') :
              \E k \in (Len(layoutChanges) + 1)..Len(layoutChanges') :
                  layoutChanges'[k].instanceId = id
      ]_vars

\* the same of addWidget, removeWidget and updateWidgetLayout alone
C26_ExplicitOpsRecorded ==
    [][layoutRet'.op \in {"addWidget", "removeWidget", "updateWidgetLayout"}
       /\ layoutRet'.result =>
          \A id \in Affected(widgets, widgets') :
              \E k \in (Len(layoutChanges) + 1)..Len(layoutChanges') :
                  layoutChanges'[k].instanceId = id
      ]_vars


\* ---- WidgetOrchestratorService: failures of updates and of destroyWidget

\* the error code of the catch block of an update operation
UpdateFailed(op) ==
    IF op = "updateWidgetConfig" THEN "CONFIG_UPDATE_FAILED" ELSE "DATA_UPDATE_FAILED"

\* C27 as stated: updateWidgetConfig and updateWidgetData return false and
\* publish a recoverable error both when the id is not a live instance and
\* when the component's hook throws, and never raise
C27_UpdateFailuresPublished ==
    [][orchRet'.op \in {"updateWidgetConfig", "updateWidgetData"}
       /\ (~orchRet'.wasLive \/ orchRet'.thrownAt = "component") =>
          /\ ~orchRet'.result /\ ~orchRet'.raised
          /\ errors' = WidgetError(orchRet'.id, UpdateFailed(orchRet'.op), TRUE)
      ]_vars

\* C27 amended: updateWidgetConfig and updateWidgetData never raise; when the
\* hook throws they return false and publish the recoverable error
\* CONFIG_UPDATE_FAILED / DATA_UPDATE_FAILED for the id; when the id is not a
\* live instance they return false and publish nothing; otherwise they return
\* true
C27_UpdateFailures ==
    [][orchRet'.op \in {"updateWidgetConfig", "updateWidgetData"} =>
          /\ ~orchRet'.raised
          /\ orchRet'.thrownAt = "component" =>
                /\ ~orchRet'.result
                /\ errors' = WidgetError(orchRet'.id, UpdateFailed(orchRet'.op), TRUE)
          /\ ~orchRet'.wasLive => ~orchRet'.result /\ errors' = errors
          /\ orchRet'.wasLive /\ orchRet'.thrownAt = "none" =>
                orchRet'.result /\ errors' = errors
      ]_vars
\* an update of an id that is not live has returned false, the error stream
\* still showing an earlier failure of the data provider and no update failure
C27_UnknownIdSilent ==
    /\ orchRet.op = "updateWidgetData"
    /\ ~orchRet.wasLive /\ ~orchRet.result
    /\ errors = WidgetError(orchRet.id, "DATA_FETCH_FAILED", TRUE)

\* C28: when the component's onDestroy hook or its disposal throws during
\* destroyWidget(id), the call does not raise, returns false, publishes
\* DESTROY_FAILED with recoverable = false for the id and records the error on
\* the instance
C28_DestroyFailureCaptured ==
    [][orchRet'.op = "destroyWidget" /\ orchRet'.thrownAt = "component" =>
          /\ ~orchRet'.raised /\ ~orchRet'.result
          /\ errors' = WidgetError(orchRet'.id, "DESTROY_FAILED", FALSE)
          /\ Live(instances', orchRet'.id)
          /\ instances'[orchRet'.id].error = "DESTROY_FAILED"
          /\ instances'[orchRet'.id].state = "error"
      ]_vars
\* a destroyWidget of a loaded widget has failed in the component
C28_DestroyThrewOnLoaded ==
    /\ orchRet.op = "destroyWidget" /\ orchRet.thrownAt = "component"
    /\ orchRet.edges = << <<"loaded", "error">> >>
    /\ errors.code = "DESTROY_FAILED"


\* C29: the change history never holds more than 100 records; a record
\* appended to a full history drops the oldest one and the others keep their
\* order, so the history is the most recent (up to 100) changes in order
C29_HistoryCapped ==
    [][/\ Len(layoutChanges) <= HistoryCap /\ Len(layoutChanges') <= HistoryCap
       /\ layoutRet'.op \in {"addWidget", "removeWidget", "updateWidgetLayout"}
          /\ layoutRet'.result =>
             /\ layoutChanges' # <<>>
             /\ layoutChanges'[Len(layoutChanges')].instanceId = layoutRet'.id
             /\ layoutChanges' =
                   (IF Len(layoutChanges) = HistoryCap
                    THEN Tail(layoutChanges) ELSE layoutChanges)
                   \o <<layoutChanges'[Len(layoutChanges')]>>
      ]_vars
\* a change was recorded on a full history: the record is the last of the 100
\* and the second record of the older history is now the first
C29_OldestDropped ==
    /\ layoutRet.op = "addWidget"
    /\ Len(layoutChanges) = HistoryCap
    /\ layoutChanges[HistoryCap].instanceId = layoutRet.id
    /\ layoutChanges[HistoryCap - 1] = PastChanges(HistoryCap)[HistoryCap]
    /\ layoutChanges[1] = PastChanges(HistoryCap)[2]


\* ---- DashboardLayoutManagerService.addWidget without a position

\* the layout is at the row-major first fit among the widgets ws
FirstFit(ws, layout, gridCols) ==
    /\ ~hasOverlap(ws, "", layout)
    /\ 0 <= layout.x /\ layout.x <= gridCols - layout.cols
    /\ \A y \in 0..layout.y : \A x \in 0..(gridCols - layout.cols) :
          y < layout.y \/ x < layout.x =>
              hasOverlap(ws, "", [layout EXCEPT !.x = x, !.y = y])
    /\ ws = <<>> => layout.x = 0 /\ layout.y = 0

\* C30: addWidget without a position places the widget at the row-major first
\* fit: it collides with no widget, has 0 <= x <= gridCols - cols, no earlier
\* position within these columns is collision-free, and on an empty grid it
\* is (0, 0)
C30_AutoPlacementFirstFit ==
    [][layoutRet'.op = "addWidget" /\ layoutRet'.why = "auto" =>
          FirstFit(widgets, widgets'[Len(widgets')].layout, grid.cols)]_vars

\* the same of the widgets that are no wider than the grid
C30_FirstFitWhenItFits ==
    [][layoutRet'.op = "addWidget" /\ layoutRet'.why = "auto"
       /\ widgets'[Len(widgets')].layout.cols <= grid.cols =>
          FirstFit(widgets, widgets'[Len(widgets')].layout, grid.cols)]_vars


\* ---- DashboardLayoutManagerService: breakpoints

FirstOfOrder(matching) ==
    IF "xs" \in matching THEN "xs"
    ELSE IF "sm" \in matching THEN "sm"
    ELSE IF "md" \in matching THEN "md"
    ELSE IF "lg" \in matching THEN "lg"
    ELSE IF "xl" \in matching THEN "xl"
    ELSE "lg"

\* C32: on a change of the viewport predicates the current breakpoint becomes
\* the first of xs, sm, md, lg, xl whose predicate matches, lg if none does;
\* when the current breakpoint changes the grid's cols, rowHeight and margin
\* are set from it, and optimizeLayoutForBreakpoint runs if and only if
\* grid.responsive is true
C32_BreakpointSelection ==
    [][\A m \in ResponsiveViewports :
          BreakpointChange(m) =>
              /\ breakpoint' = FirstOfOrder(m)
              /\ grid'.cols = BreakpointOf(breakpoint').cols
              /\ grid'.rowHeight = BreakpointOf(breakpoint').rowHeight
              /\ grid'.margin = BreakpointOf(breakpoint').margin
              /\ grid'.responsive = grid.responsive
              /\ grid.responsive =>
                    widgets' = optimizeLayoutForBreakpoint(widgets, BreakpointOf(breakpoint'))
              /\ ~grid.responsive => widgets' = widgets
      ]_vars
\* the breakpoint changed to xl on a grid that is not responsive, a widget
\* wider than one column on the dashboard
C32_ChangedUnresponsive ==
    /\ layoutRet.op = "breakpoint" /\ breakpoint = "xl"
    /\ ~grid.responsive /\ grid.rowHeight = 120
    /\ \E i \in 1..Len(widgets) : widgets[i].layout.cols = 2


\* ---- DashboardLayoutManagerService.updateWidgetLayout

\* the record a successful step has appended to the history
LastChange(changes) == changes[Len(changes)]

\* a successful updateWidgetLayout has appended exactly one record, with the
\* layout before the call and the layout applied
OneChangeRecorded ==
    LET i == WidgetIndex(widgets, layoutRet'.id)
    IN /\ Len(layoutChanges') = Len(layoutChanges) + 1
       /\ SubSeq(layoutChanges', 1, Len(layoutChanges)) = layoutChanges
       /\ LastChange(layoutChanges').instanceId = layoutRet'.id
       /\ LastChange(layoutChanges').previousLayout = widgets[i].layout
       /\ LastChange(layoutChanges').layout = widgets'[i].layout

\* C33 as stated: each successful updateWidgetLayout records exactly one
\* change with the previous and the applied layout, of type move when the
\* applied (x, y) differs from the previous one and of type resize when only
\* the size changed
C33_ChangeTypeByEffect ==
    [][layoutRet'.op = "updateWidgetLayout" /\ layoutRet'.result =>
          LET i == WidgetIndex(widgets, layoutRet'.id)
              old == widgets[i].layout
              new == widgets'[i].layout
              moved == new.x # old.x \/ new.y # old.y
              resized == new.cols # old.cols \/ new.rows # old.rows
          IN /\ OneChangeRecorded
             /\ moved => LastChange(layoutChanges').type = "move"
             /\ ~moved /\ resized => LastChange(layoutChanges').type = "resize"
      ]_vars


\* the Chebyshev distance of the positions of two layouts
Chebyshev(a, b) ==
    LET dx == IF a.x >= b.x THEN a.x - b.x ELSE b.x - a.x
        dy == IF a.y >= b.y THEN a.y - b.y ELSE b.y - a.y
    IN IF dx >= dy THEN dx ELSE dy

\* the layout of the size of requested at (x, y) is at distance radius from
\* it, passes validateLayout and collides with no widget but the one of id
FreeAt(ws, id, requested, gridCols, radius, x, y) ==
    /\ Chebyshev([x |-> x, y |-> y], requested) = radius
    /\ validateLayout([requested EXCEPT !.x = x, !.y = y], gridCols)
    /\ ~hasOverlap(ws, id, [requested EXCEPT !.x = x, !.y = y])

\* some position at distance radius is free (a position left of column 0,
\* above row 0 or past the last column never passes validateLayout)
SomeFreeAt(ws, id, requested, gridCols, radius) ==
    \E x \in Max(0, requested.x - radius)..
              Min(gridCols - requested.cols, requested.x + radius),
       y \in Max(0, requested.y - radius)..(requested.y + radius) :
        FreeAt(ws, id, requested, gridCols, radius, x, y)

\* C34: when the requested layout of updateWidgetLayout collides with another
\* widget, the call succeeds if and only if some position within Chebyshev
\* distance 1..10 of the requested one passes validateLayout and collides with
\* no other widget; the applied position is then such a position of minimal
\* ring radius, with the requested cols and rows
C34_ResolvedAtNearestRing ==
    [][layoutRet'.op = "updateWidgetLayout"
       /\ layoutRet'.why \in {"resolved", "overlap"} =>
       \A partial \in UpdatePartials :
          LET id == layoutRet'.id
              i == WidgetIndex(widgets, id)
              requested == Merge(widgets[i].layout, partial)
              applied == widgets'[i].layout
          IN (/\ i # 0
              /\ validateLayout(requested, grid.cols)
              /\ hasOverlap(widgets, id, requested)
              /\ UpdateWidgetLayout(id, partial)) =>
                 /\ layoutRet'.result <=>
                       \E r \in 1..MaxRadius :
                           SomeFreeAt(widgets, id, requested, grid.cols, r)
                 /\ layoutRet'.result =>
                       /\ applied.cols = requested.cols
                       /\ applied.rows = requested.rows
                       /\ Chebyshev(applied, requested) \in 1..MaxRadius
                       /\ FreeAt(widgets, id, requested, grid.cols,
                                 Chebyshev(applied, requested), applied.x, applied.y)
                       /\ \A r \in 1..(Chebyshev(applied, requested) - 1) :
                             ~SomeFreeAt(widgets, id, requested, grid.cols, r)
      ]_vars
\* a widget made wider onto its neighbour was moved to the nearest free ring
C34_ResolvedBesideNeighbour ==
    /\ layoutRet.op = "updateWidgetLayout" /\ layoutRet.why = "resolved"
    /\ Len(widgets) = 2 /\ Len(layoutChanges) = 1
    /\ layoutChanges[1].previousLayout.cols = 1
    /\ layoutChanges[1].layout.cols = 2
    /\ \A i, j \in 1..Len(widgets) :
          i < j => ~Collide(widgets[i].layout, widgets[j].layout)


\* ---- WidgetRegistryService: the category index

\* the members of a sequence
Members(seq) == {seq[i] : i \in 1..Len(seq)}

\* C35: after any sequence of register, registerMany, unregister and import
\* calls, for every category getWidgetsByCategory is exactly the registered
\* definitions of that category, and getCategories is exactly the categories
\* of the registered definitions
C35_CategoryIndexConsistent ==
    /\ Members(getCategories) = {d.category : d \in Members(regWidgets)}
    /\ \A c \in Members(getCategories) \cup {d.category : d \in Members(regWidgets)} :
          Members(getWidgetsByCategory(c)) =
              {d \in Members(regWidgets) : d.category = c}


\* ---- WidgetOrchestratorService: destroyWidget during a load

\* C36: once a destroyWidget(id) and the loadWidgetComponent of the same id
\* that it interleaved with have both finished, the orchestrator holds no
\* component reference and no data subscription for an id that is absent from
\* the instance table
C36_NoOrphansAfterLoad ==
    [][orchRet'.phase = "resume" /\ ~orchRet'.wasLive
       /\ (\A l \in loads' : l.id # orchRet'.id) =>
          /\ orchRet'.id \notin componentRefs'
          /\ orchRet'.id \notin subscriptions'
      ]_vars


\* ---- WidgetOrchestratorService.updateWidgetConfig and the rebound hook

\* C37: an updateWidgetConfig on a live widget whose mounted component exposes
\* onConfigChange merges the partial config once, invokes the hook once and
\* returns true, without entering itself again
C37_ConfigUpdateEntersOnce ==
    [][orchRet'.op = "updateWidgetConfig" /\ orchRet'.wasLive
       /\ orchRet'.id \in componentRefs /\ orchRet'.thrownAt # "component" =>
          /\ orchRet'.result
          /\ orchRet'.entered = 1
          /\ instances'[orchRet'.id].state = instances[orchRet'.id].state
      ]_vars


\* ---- the type of an instance and of its config

\* C38: for every live instance config.type equals definition.type and the type
\* passed to createWidget, whatever overrides createWidget was given and
\* whatever partial configs updateWidgetConfig was given afterwards
C38_TypeIdentity ==
    \A id \in DOMAIN instances :
        Live(instances, id) =>
            /\ instances[id].config.type = instances[id].type
            /\ instances[id].config.type = id.type


\* ---- the deliveries of one event

\* C39: for every event passed to emitEvent the onEvent hook of each mounted
\* component is invoked at most once, for every combination of the event's
\* target and bubble, an event that names a target and bubbles included
C39_InvokedAtMostOnce ==
    [][orchRet'.op = "emitEvent" =>
          \A id \in componentRefs : orchRet'.invoked[id] <= 1]_vars


\* ---- the layouts the orchestrator and the layout engine hold

\* C40: for every widget that is live in the orchestrator and in the
\* dashboard's list, getWidget(id).config.layout equals getWidgetLayout(id)
\* after any sequence of addWidget, updateWidgetLayout, compactLayout,
\* optimizeLayoutForBreakpoint and updateWidgetConfig
C40_LayoutsAgree ==
    \A id \in DOMAIN instances :
        Live(instances, id) /\ WidgetIndex(widgets, KeyOf(id)) # 0 =>
            instances[id].config.layout
                = widgets[WidgetIndex(widgets, KeyOf(id))].layout
====
